---- MODULE Spec2Model ----
(***************************************************************************)
(* A model of the ML platform's monitoring subsystem (model_monitor.py,    *)
(* monitoring_service.py, metrics_exporter.py, run_drift_check.py) and of  *)
(* the training pipeline (training_pipeline.py).                           *)
(*                                                                         *)
(* Numbers: drift_share is a fraction in the source; here it is kept in    *)
(* hundredths (0.5 is 50, 0.3 is 30).  performance_degradation is already  *)
(* a percentage in the source and is kept in whole percent.                *)
(* Strings that the code takes apart (model names, keys) are sequences of  *)
(* one-character strings, so that startswith and concatenation are         *)
(* computed and not assumed.                                               *)
(***************************************************************************)
EXTENDS Integers, Sequences, FiniteSets, TLC

VARIABLES
    \* --- ModelMonitor._determine_health, applied to one result ---
    hResults,            \* the results dict handed to _determine_health
    hVerdict,            \* what it returned ("none" before the call)

    \* --- monitoring_service.py: the process-wide state and the last answer ---
    monitors,            \* dict key -> ModelMonitor, in insertion order
    exporters,           \* dict key -> MetricsExporter, in insertion order
    reference_datasets,  \* dict key -> reference DataFrame, in insertion order
    last,                \* the request just answered and its response
    \* --- run_drift_check.py: one execution of main() ---
    config_file,         \* what is found at config_path
    slack_webhook,       \* whether SLACK_WEBHOOK_URL is set (and not empty)
    rPc,                 \* "start", "loop", "exit0" (returned), "exit1" (sys.exit(1))
    rModels,             \* config.get("models", []) once the config is loaded
    rIdx,                \* how many entries of rModels the for loop has taken
    runner_results,      \* DriftCheckRunner.results
    service_calls,       \* the entries for which /monitoring/run was POSTed
    webhook_posts,       \* the entries for which the webhook was POSTed
    summary_file,        \* the list generate_summary wrote, or "not written"
    \* --- training_pipeline.py: one call of TrainingPipeline.run_pipeline ---
    pipeline_config,     \* config['validation'], as far as the steps read it
    pPc,                 \* "idle", the step about to run, "returned" or "raised"
    steps_run,           \* the steps entered so far, in order
    steps_returned,      \* how many of them returned without raising
    validation_success,  \* validation_results['success'] ("none" before)
    step_error,          \* the exception a step raised ("none" if none did)
    propagated,          \* the exception that left run_pipeline ("none" ...)
    run_params,          \* pipeline_status and error_message on the tracking run
    runs_opened,         \* tracking runs opened during this call
    active_runs,         \* tracking runs open now
    \* --- inference_pipeline.py: one InferencePipeline object; main.py: one
    \*     execution of the inference command on it ---
    inf_model,           \* self.model: "none" or "loaded"
    inf_fe,              \* whether self.feature_engineer is set
    inference_stats,     \* self.inference_stats
    inf_last,            \* the call just made on the object and how it ended
    cli_args,            \* the parsed arguments of the inference command
    cPc,                 \* "idle", "construct", "health", "infer", "exit0", "exit1"
    cli_calls,           \* the calls run_inference made on the object, in order
    cli_health,          \* health['status'] ("none" before the health check)
    cli_printed,         \* what main printed: "none", "completed" or "Error"
    \* --- feature_engineering.py: one FeatureEngineer object ---
    fe,                  \* preprocessor, feature_selector, is_fitted, name lists
    fe_last,             \* the call just made on it and how it ended
    fe_file,             \* what the last save_pipeline wrote, <<>> before
    \* --- base_model.py: one model object and the file it is saved to ---
    bm,                  \* self.model ("none", "unfitted", "fitted"), self.is_trained
    bm_file,             \* the pickles at filepath: none (<<>>) or one
    bm_last,             \* the call just made on the object and how it ended
    \* --- config_manager.py: one call of ConfigManager.load_config ---
    cfg_sources,         \* the two config files, the environment, the secrets file
    cfg_merged,          \* merged_config handed to _dict_to_config
    \* --- config_manager.py: one call of ConfigManager.validate_config ---
    vc_config,           \* the fields of the MLOpsConfig that validate_config reads
    vc_result,           \* what it returned and the errors it logged, in order
    \* --- utils/monitoring.py: one ModelMonitor (the baseline monitor) ---
    baseline_stats,      \* "none" or the statistics of the baseline set last
    prediction_history,  \* the records kept, oldest first
    mon_logged,          \* log_prediction calls that returned since construction or the last reset
    mon_last,            \* the last operation and how it ended
    \* --- gitops/tests/test_gitops_controller_health.py ---
    gh_deployment,       \* the deployment handed to check_deployment_health
    gh_result,           \* what check_deployment_health returned for it
    check_count,         \* test_controller_health_stability: the drawn repeat count
    stPc,                \* where the stability test is for one controller
    observed,            \* what get_deployment returned at each check, in order
    health_checks,       \* the test's list of verdicts
    \* --- monitoring_service.py: requests in flight on the event loop ---
    loop_running,        \* the request whose handler holds the event loop, or "none"
    req,                 \* per request: the handler's position, resolved key, answer
    \* --- monitoring_service.py: what the clients of one model have seen ---
    runs_returned,       \* the results ModelMonitor.run_monitoring returned since registration
    history_response,    \* the "history" of the last GET /models/{name}/history answered 200
    \* --- inference_pipeline.py: one call of predict_batch, row by row ---
    pb_input,            \* the rows of the file, the batch size, the model, the failing call
    pb_result            \* the chunks handed to predict and what predict_batch returned

healthVars == <<hResults, hVerdict>>
serviceVars == <<monitors, exporters, reference_datasets, last>>
runnerVars == <<config_file, slack_webhook, rPc, rModels, rIdx, runner_results,
                service_calls, webhook_posts, summary_file>>

pipelineVars == <<pipeline_config, pPc, steps_run, steps_returned,
                  validation_success, step_error, propagated, run_params,
                  runs_opened, active_runs>>

inferenceVars == <<inf_model, inf_fe, inference_stats, inf_last,
                   cli_args, cPc, cli_calls, cli_health, cli_printed>>

featureVars == <<fe, fe_last, fe_file>>

modelVars == <<bm, bm_file, bm_last>>

configVars == <<cfg_sources, cfg_merged>>

validateVars == <<vc_config, vc_result>>

monitorVars == <<baseline_stats, prediction_history, mon_logged, mon_last>>

gitopsVars == <<gh_deployment, gh_result, check_count, stPc, observed, health_checks>>

loopVars == <<loop_running, req>>

historyVars == <<runs_returned, history_response>>

batchVars == <<pb_input, pb_result>>

\* the components of the first part of the module, and those of the second
coreVars == <<healthVars, serviceVars, runnerVars, pipelineVars>>
libVars == <<inferenceVars, featureVars, modelVars, configVars, validateVars, monitorVars, gitopsVars, loopVars, historyVars, batchVars>>
otherThanInference == <<coreVars, featureVars, modelVars, configVars, validateVars, monitorVars, gitopsVars, loopVars, historyVars, batchVars>>
otherThanFeature == <<coreVars, inferenceVars, modelVars, configVars, validateVars, monitorVars, gitopsVars, loopVars, historyVars, batchVars>>
otherThanModel == <<coreVars, inferenceVars, featureVars, configVars, validateVars, monitorVars, gitopsVars, loopVars, historyVars, batchVars>>
otherThanConfig == <<coreVars, inferenceVars, featureVars, modelVars, validateVars, monitorVars, gitopsVars, loopVars, historyVars, batchVars>>
otherThanValidate == <<coreVars, inferenceVars, featureVars, modelVars, configVars, monitorVars, gitopsVars, loopVars, historyVars, batchVars>>
otherThanMonitor == <<coreVars, inferenceVars, featureVars, modelVars, configVars, validateVars, gitopsVars, loopVars, historyVars, batchVars>>
otherThanGitops == <<coreVars, inferenceVars, featureVars, modelVars, configVars, validateVars, monitorVars, loopVars, historyVars, batchVars>>
otherThanLoop == <<coreVars, inferenceVars, featureVars, modelVars, configVars, validateVars, monitorVars, gitopsVars, historyVars, batchVars>>
libsButLoop == <<inferenceVars, featureVars, modelVars, configVars, validateVars, monitorVars, gitopsVars, historyVars, batchVars>>
otherThanHistory == <<coreVars, inferenceVars, featureVars, modelVars, configVars, validateVars, monitorVars, gitopsVars, loopVars, batchVars>>
libsButHistory == <<inferenceVars, featureVars, modelVars, configVars, validateVars, monitorVars, gitopsVars, loopVars, batchVars>>
otherThanBatch == <<coreVars, inferenceVars, featureVars, modelVars, configVars, validateVars, monitorVars, gitopsVars, loopVars, historyVars>>

vars == <<hResults, hVerdict, monitors, exporters, reference_datasets, last,
          config_file, slack_webhook, rPc, rModels, rIdx, runner_results,
          service_calls, webhook_posts, summary_file,
          pipeline_config, pPc, steps_run, steps_returned,
          validation_success, step_error, propagated, run_params,
          runs_opened, active_runs, libVars>>

----------------------------------------------------------------------------
(* model_monitor.py: ModelMonitor._determine_health                        *)

\* drift_share > 0.5 (line 201), in hundredths
DRIFT_SHARE_CRITICAL == 50
\* drift_share > 0.3 (line 203), in hundredths
DRIFT_SHARE_WARNING == 30
\* degradation > 20 (line 208)
DEGRADATION_CRITICAL == 20
\* degradation > 10 (line 210)
DEGRADATION_WARNING == 10

\* the largest |performance_degradation| the model enumerates
MaxDegradation == 23

ShareValues == 0..100
DegradationValues == (0 - MaxDegradation)..MaxDegradation

\* A "data_drift" block: absent, or a dict in which each key may be missing.
NoDrift == [present |-> FALSE, has_flag |-> FALSE, dataset_drift |-> FALSE,
            has_share |-> FALSE, drift_share |-> 0]
DriftBlocks ==
    {NoDrift} \cup
    { [present |-> TRUE, has_flag |-> hf, dataset_drift |-> f,
       has_share |-> hs, drift_share |-> s] :
         hf \in BOOLEAN, f \in BOOLEAN, hs \in BOOLEAN, s \in ShareValues }

\* A "model_performance" block: absent, or a dict with or without the key.
NoPerf == [present |-> FALSE, has_degradation |-> FALSE, performance_degradation |-> 0]
PerfBlocks ==
    {NoPerf} \cup
    { [present |-> TRUE, has_degradation |-> hd, performance_degradation |-> d] :
         hd \in BOOLEAN, d \in DegradationValues }

\* dict.get(key, default) on the two blocks
GetDatasetDrift(drift) ==
    IF drift.present /\ drift.has_flag THEN drift.dataset_drift ELSE FALSE
GetDriftShare(drift) ==
    IF drift.present /\ drift.has_share THEN drift.drift_share ELSE 0
GetDegradation(perf) ==
    IF perf.present /\ perf.has_degradation THEN perf.performance_degradation ELSE 0

\* the drift branch with both comparisons taken as >= (a boundary slip)
_determine_health_inclusive(results) ==
    LET drift == results.data_drift
        perf == results.model_performance
        degradation == GetDegradation(perf)
        perfVerdict == IF degradation > DEGRADATION_CRITICAL THEN "critical"
                       ELSE IF degradation > DEGRADATION_WARNING THEN "warning"
                       ELSE "healthy"
    IN  IF GetDatasetDrift(drift)
        THEN IF GetDriftShare(drift) >= DRIFT_SHARE_CRITICAL THEN "critical"
             ELSE IF GetDriftShare(drift) >= DRIFT_SHARE_WARNING THEN "warning"
             ELSE perfVerdict
        ELSE perfVerdict

_determine_health(results) ==
    LET drift == results.data_drift
        perf == results.model_performance
        degradation == GetDegradation(perf)
        \* lines 207-213: reached when the drift branch returned nothing
        perfVerdict == IF degradation > DEGRADATION_CRITICAL THEN "critical"
                       ELSE IF degradation > DEGRADATION_WARNING THEN "warning"
                       ELSE "healthy"
    IN  IF GetDatasetDrift(drift)
        THEN IF GetDriftShare(drift) > DRIFT_SHARE_CRITICAL THEN "critical"
             ELSE IF GetDriftShare(drift) > DRIFT_SHARE_WARNING THEN "warning"
             ELSE perfVerdict
        ELSE perfVerdict

\* canonical inputs only: a missing key carries no value
WellFormedDrift(d) ==
    /\ (~d.has_flag => d.dataset_drift = FALSE)
    /\ (~d.has_share => d.drift_share = 0)
WellFormedPerf(p) == ~p.has_degradation => p.performance_degradation = 0

HealthInputs ==
    { [data_drift |-> d, model_performance |-> p] :
        d \in {x \in DriftBlocks : WellFormedDrift(x)},
        p \in {x \in PerfBlocks : WellFormedPerf(x)} }

----------------------------------------------------------------------------
(* monitoring_service.py: the three global dicts and the endpoints.        *)
(* Every handler is an `async def` without an await, so a request runs to  *)
(* completion before the next one starts: one action per request.          *)

\* Python dicts keep insertion order: a dict is a sequence of [k, v] entries.
DictKeys(d) == [i \in 1..Len(d) |-> d[i].k]
DictHas(d, key) == \E i \in 1..Len(d) : d[i].k = key
DictGet(d, key) == d[CHOOSE i \in 1..Len(d) : d[i].k = key].v
\* d[key] = value: a key already present keeps its position
DictSet(d, key, value) ==
    IF DictHas(d, key)
    THEN [i \in 1..Len(d) |-> IF d[i].k = key THEN [k |-> key, v |-> value] ELSE d[i]]
    ELSE Append(d, [k |-> key, v |-> value])
\* del d[key]
DictDel(d, key) == SelectSeq(d, LAMBDA e : e.k # key)

\* str.startswith
StartsWith(s, prefix) ==
    Len(prefix) <= Len(s) /\ SubSeq(s, 1, Len(prefix)) = prefix

\* what _find_model_key returns for "no match"; `if not model_key` is true
\* of None and of the empty string alike
None == <<>>

\* f"{request.model_name}:{request.model_version}"
ModelKey(model_name, model_version) == model_name \o <<":">> \o model_version

\* the registrations the model enumerates: model "a" version "1" and model
\* "a:1" version "2", that is the keys "a:1" and "a:1:2"
RegisterRequests ==
    { <<(<<"a">>), (<<"1">>)>>, <<(<<"a", ":", "1">>), (<<"2">>)>> }
\* the names model-scoped requests ask for: "a" is a prefix of both keys,
\* "a:1" is one key and a prefix of the other, "b" matches nothing
LookupNames ==
    { <<"a">>, <<"a", ":", "1">>, <<"a", ":", "1", ":", "2">>, <<"b">> }

\* reference files: an extension and what reading the file gives
DataSets == {"ref_v1", "ref_v2"}
ReferencePaths ==
    { [ext |-> "csv", data |-> "ref_v1"], [ext |-> "parquet", data |-> "ref_v2"],
      [ext |-> "json", data |-> "ref_v1"], [ext |-> "csv", data |-> "unreadable"] }

\* the drift engine's parsed answers (DriftDetector._parse_drift_report always
\* fills dataset_drift and drift_share) and the performance blocks
DriftResult(flag, share) ==
    [present |-> TRUE, has_flag |-> TRUE, dataset_drift |-> flag,
     has_share |-> TRUE, drift_share |-> share]
PerfResult(d) ==
    [present |-> TRUE, has_degradation |-> TRUE, performance_degradation |-> d]
DriftOutcomes == { DriftResult(FALSE, 0), DriftResult(TRUE, 60) }
\* what one monitoring run computes: <<drift block, performance block>>
EngineOutcomes ==
    { <<DriftResult(FALSE, 0), NoPerf>>, <<DriftResult(TRUE, 60), PerfResult(15)>> }

\* the total number of monitoring results kept over all monitors
MaxRuns == 1

\* prometheus gauges: a labelled child exists once it was set
Unset == [set |-> FALSE, value |-> 0]
Gauge(v) == [set |-> TRUE, value |-> v]

\* ModelMonitor.__init__ (with the DriftDetector it owns)
NewModelMonitor(reference_data) ==
    [reference_data |-> reference_data, history |-> <<>>, last_results |-> NoDrift]

\* MetricsExporter.__init__ and _setup_metrics
NewMetricsExporter(model_name, model_version) ==
    [model_name |-> model_name, model_version |-> model_version,
     drift_detected |-> Unset, drift_share |-> Unset,
     performance_degradation |-> Unset, health_status |-> Unset,
     samples_analyzed |-> 0, monitoring_runs |-> 0]

\* MetricsExporter.update_drift_metrics
update_drift_metrics(exporter, drift_results) ==
    [exporter EXCEPT
        !.drift_detected = Gauge(IF GetDatasetDrift(drift_results) THEN 1 ELSE 0),
        !.drift_share = Gauge(GetDriftShare(drift_results))]

\* MetricsExporter.update_performance_metrics
update_performance_metrics(exporter, perf_results) ==
    IF perf_results.has_degradation
    THEN [exporter EXCEPT
            !.performance_degradation = Gauge(perf_results.performance_degradation)]
    ELSE exporter

HealthValue(health) ==
    CASE health = "healthy" -> 0 [] health = "warning" -> 1
      [] health = "critical" -> 2 [] OTHER -> 0

\* MetricsExporter.update_from_monitoring_results
update_from_monitoring_results(exporter, results) ==
    LET e1 == update_drift_metrics(exporter, results.data_drift)
        e2 == IF results.model_performance.present
              THEN update_performance_metrics(e1, results.model_performance)
              ELSE e1
    IN  [e2 EXCEPT
            !.health_status = Gauge(HealthValue(results.health_status)),
            !.samples_analyzed = @ + results.samples_analyzed,
            !.monitoring_runs = @ + 1]

\* _find_model_key that takes the last prefixed key, not the first
_find_model_key_last(model_name) ==
    IF DictHas(monitors, model_name) THEN model_name
    ELSE LET hits == { i \in 1..Len(monitors) :
                         StartsWith(monitors[i].k, model_name \o <<":">>) }
         IN  IF hits = {} THEN None
             ELSE monitors[CHOOSE i \in hits : \A j \in hits : j <= i].k

_find_model_key(model_name) ==
    IF DictHas(monitors, model_name) THEN model_name
    ELSE LET hits == { i \in 1..Len(monitors) :
                         StartsWith(monitors[i].k, model_name \o <<":">>) }
         IN  IF hits = {} THEN None
             ELSE monitors[CHOOSE i \in hits : \A j \in hits : i <= j].k

\* the endpoint and the model name of the request, with the response's
\* status and the model key the request resolved to
Response(op, name, status, model_key) ==
    [op |-> op, name |-> name, status |-> status, model_key |-> model_key]

\* `except Exception as e: raise HTTPException(500, str(e))`: HTTPException is
\* an Exception, so one raised inside the try block is answered 500 as well
ExceptHandlerStatus(raised_status) == 500

TotalHistory ==
    LET RECURSIVE Sum(_)
        Sum(i) == IF i = 0 THEN 0 ELSE Len(monitors[i].v.history) + Sum(i - 1)
    IN  Sum(Len(monitors))

\* GET /health
health_check ==
    /\ last' = Response("health", None, 200, None)
    /\ UNCHANGED <<monitors, exporters, reference_datasets>>

\* GET /models: reads monitors[key] and reference_datasets[key] for every key
list_models ==
    /\ last' = IF \A i \in 1..Len(monitors) :
                     DictHas(reference_datasets, monitors[i].k)
               THEN Response("list", None, 200, None)
               ELSE Response("list", None, 500, None)
    /\ UNCHANGED <<monitors, exporters, reference_datasets>>

\* the three stores with the reference dataset filed under the model name
\* where that name is a key already, not under the new model key
StoreUnderName(model_key, model_name, model_version, reference_data) ==
    /\ monitors' = DictSet(monitors, model_key, NewModelMonitor(reference_data))
    /\ exporters' = DictSet(exporters, model_key,
                            NewMetricsExporter(model_name, model_version))
    /\ reference_datasets' =
         DictSet(IF DictHas(reference_datasets, model_name)
                 THEN DictSet(reference_datasets, model_name, reference_data)
                 ELSE reference_datasets,
                 model_key, reference_data)

\* the stores without the one for the exporter
StoreWithoutExporter(model_key, model_name, model_version, reference_data) ==
    /\ monitors' = DictSet(monitors, model_key, NewModelMonitor(reference_data))
    /\ UNCHANGED exporters
    /\ reference_datasets' = DictSet(reference_datasets, model_key, reference_data)

\* register_model, lines 113-117
Store(model_key, model_name, model_version, reference_data) ==
    /\ monitors' = DictSet(monitors, model_key, NewModelMonitor(reference_data))
    /\ exporters' = DictSet(exporters, model_key,
                            NewMetricsExporter(model_name, model_version))
    /\ reference_datasets' = DictSet(reference_datasets, model_key, reference_data)

\* POST /models/register
register_model(model_name, model_version, path) ==
    IF path.ext \notin {"csv", "parquet"}
    THEN \* raise HTTPException(400, ...) inside the try block
         /\ last' = Response("register", model_name, ExceptHandlerStatus(400), None)
         /\ UNCHANGED <<monitors, exporters, reference_datasets>>
    ELSE IF path.data \notin DataSets
    THEN \* pd.read_csv / pd.read_parquet raises
         /\ last' = Response("register", model_name, 500, None)
         /\ UNCHANGED <<monitors, exporters, reference_datasets>>
    ELSE LET model_key == ModelKey(model_name, model_version)
         IN  /\ Store(model_key, model_name, model_version, path.data)
             /\ last' = Response("register", model_name, 200, model_key)

\* what the request carries as current data
\* (neither field, an inline record list, a path whose read raises; a path
\* that reads well gives the same DataFrame as the inline list)
CurrentSources == {"none", "inline", "unreadable_path"}
\* the sources from which a DataFrame is loaded
LoadedSources == {"inline"}
\* the number of rows of the current data the requests carry
CurrentRows == 2

\* ModelMonitor.run_monitoring, up to and including the append to the history
MonitoringResults(samples, drift, perf) ==
    LET partial == [data_drift |-> drift, model_performance |-> perf]
    IN  [samples_analyzed |-> samples, data_drift |-> drift,
         model_performance |-> perf,
         health_status |-> _determine_health(partial)]

\* run_monitoring keeping the latest result only
run_monitoring_latest(cap, model_name, source, fail, drift, perf) ==
    LET model_key == _find_model_key(model_name)
    IN  IF model_key = None
        THEN /\ last' = Response("run", model_name, 404, None)
             /\ UNCHANGED <<monitors, exporters, reference_datasets>>
        ELSE IF source = "none"
        THEN \* raise HTTPException(400, "No current data provided") in the try
             /\ last' = Response("run", model_name, ExceptHandlerStatus(400), model_key)
             /\ UNCHANGED <<monitors, exporters, reference_datasets>>
        ELSE IF source = "unreadable_path" \/ fail = "engine"
        THEN /\ last' = Response("run", model_name, 500, model_key)
             /\ UNCHANGED <<monitors, exporters, reference_datasets>>
        ELSE LET monitor == DictGet(monitors, model_key)
                 exporter == DictGet(exporters, model_key)
                 results == MonitoringResults(CurrentRows, drift, perf)
             IN  /\ TotalHistory < cap
                 /\ monitors' = DictSet(monitors, model_key,
                        [monitor EXCEPT !.history = <<results>>,
                                        !.last_results = drift])
                 /\ exporters' =
                        IF fail = "export" THEN exporters
                        ELSE DictSet(exporters, model_key,
                                update_from_monitoring_results(exporter, results))
                 /\ last' = Response("run", model_name,
                                     IF fail = "export" THEN 500 ELSE 200, model_key)
                 /\ UNCHANGED reference_datasets

\* POST /monitoring/run.  fail: where an exception is raised, if anywhere
\* ("engine": in the drift or quality report, "export": in the exporter).
\* The report_path that a generate_report request adds to the response (and,
\* through the shared dict, to the history entry) and the HTML file the
\* background task writes are not part of the state kept here.
\* cap: the number of results the model keeps in all
run_monitoring_upto(cap, model_name, source, fail, drift, perf) ==
    LET model_key == _find_model_key(model_name)
    IN  IF model_key = None
        THEN /\ last' = Response("run", model_name, 404, None)
             /\ UNCHANGED <<monitors, exporters, reference_datasets>>
        ELSE IF source = "none"
        THEN \* raise HTTPException(400, "No current data provided") in the try
             /\ last' = Response("run", model_name, ExceptHandlerStatus(400), model_key)
             /\ UNCHANGED <<monitors, exporters, reference_datasets>>
        ELSE IF source = "unreadable_path" \/ fail = "engine"
        THEN /\ last' = Response("run", model_name, 500, model_key)
             /\ UNCHANGED <<monitors, exporters, reference_datasets>>
        ELSE LET monitor == DictGet(monitors, model_key)
                 exporter == DictGet(exporters, model_key)
                 results == MonitoringResults(CurrentRows, drift, perf)
             IN  /\ TotalHistory < cap
                 /\ monitors' = DictSet(monitors, model_key,
                        [monitor EXCEPT !.history = Append(@, results),
                                        !.last_results = drift])
                 /\ exporters' =
                        IF fail = "export" THEN exporters
                        ELSE DictSet(exporters, model_key,
                                update_from_monitoring_results(exporter, results))
                 /\ last' = Response("run", model_name,
                                     IF fail = "export" THEN 500 ELSE 200, model_key)
                 /\ UNCHANGED reference_datasets

run_monitoring(model_name, source, fail, drift, perf) ==
    run_monitoring_upto(MaxRuns, model_name, source, fail, drift, perf)

\* check_drift that goes through the full monitoring path
check_drift_full(model_name, fail, drift) ==
    LET model_key == _find_model_key(model_name)
    IN  IF model_key = None
        THEN /\ last' = Response("drift", model_name, 404, None)
             /\ UNCHANGED <<monitors, exporters, reference_datasets>>
        ELSE IF fail = "engine"
        THEN /\ last' = Response("drift", model_name, 500, model_key)
             /\ UNCHANGED <<monitors, exporters, reference_datasets>>
        ELSE LET monitor == DictGet(monitors, model_key)
                 exporter == DictGet(exporters, model_key)
                 results == MonitoringResults(CurrentRows, drift, NoPerf)
             IN  /\ monitors' = DictSet(monitors, model_key,
                        [monitor EXCEPT !.history = Append(@, results),
                                        !.last_results = drift])
                 /\ exporters' = DictSet(exporters, model_key,
                        update_from_monitoring_results(exporter, results))
                 /\ last' = Response("drift", model_name, 200, model_key)
                 /\ UNCHANGED reference_datasets

\* POST /drift/check
check_drift(model_name, fail, drift) ==
    LET model_key == _find_model_key(model_name)
    IN  IF model_key = None
        THEN /\ last' = Response("drift", model_name, 404, None)
             /\ UNCHANGED <<monitors, exporters, reference_datasets>>
        ELSE IF fail = "engine"
        THEN /\ last' = Response("drift", model_name, 500, model_key)
             /\ UNCHANGED <<monitors, exporters, reference_datasets>>
        ELSE LET monitor == DictGet(monitors, model_key)
                 exporter == DictGet(exporters, model_key)
             IN  /\ monitors' = DictSet(monitors, model_key,
                        [monitor EXCEPT !.last_results = drift])
                 /\ exporters' = DictSet(exporters, model_key,
                                         update_drift_metrics(exporter, drift))
                 /\ last' = Response("drift", model_name, 200, model_key)
                 /\ UNCHANGED reference_datasets

\* GET /models/{model_name}/history
get_monitoring_history(model_name) ==
    LET model_key == _find_model_key(model_name)
    IN  /\ last' = IF model_key = None
                   THEN Response("history", model_name, 404, None)
                   ELSE Response("history", model_name, 200, model_key)
        /\ UNCHANGED <<monitors, exporters, reference_datasets>>

\* unregister_model that forgets the reference dataset's entry
unregister_model_two(model_name) ==
    LET model_key == _find_model_key(model_name)
    IN  IF model_key = None
        THEN /\ last' = Response("unregister", model_name, 404, None)
             /\ UNCHANGED <<monitors, exporters, reference_datasets>>
        ELSE /\ monitors' = DictDel(monitors, model_key)
             /\ exporters' = DictDel(exporters, model_key)
             /\ UNCHANGED reference_datasets
             /\ last' = Response("unregister", model_name, 200, model_key)

\* DELETE /models/{model_name}
unregister_model(model_name) ==
    LET model_key == _find_model_key(model_name)
    IN  IF model_key = None
        THEN /\ last' = Response("unregister", model_name, 404, None)
             /\ UNCHANGED <<monitors, exporters, reference_datasets>>
        ELSE /\ monitors' = DictDel(monitors, model_key)
             /\ exporters' = DictDel(exporters, model_key)
             /\ reference_datasets' = DictDel(reference_datasets, model_key)
             /\ last' = Response("unregister", model_name, 200, model_key)

\* the state after the module is imported
ServiceIdle ==
    /\ monitors = <<>>
    /\ exporters = <<>>
    /\ reference_datasets = <<>>
    /\ last = Response("start", None, 200, None)

----------------------------------------------------------------------------
(* run_drift_check.py: DriftCheckRunner and main                           *)

\* the longest models list the model enumerates
MaxConfigured == 2

\* One entry of the models list.  form: a mapping or a scalar (a YAML list
\* may hold either); data: which current-data keys the mapping has
\* ("none": neither, "other_path": a path that is no s3://, .csv or .parquet,
\* "file": a path that is, "query": a current_data_query).
ModelConfigs ==
    { [form |-> "mapping", has_name |-> TRUE, data |-> d] :
        d \in {"none", "other_path", "file", "query"} }
    \cup { [form |-> "mapping", has_name |-> FALSE, data |-> "file"],
           [form |-> "scalar", has_name |-> FALSE, data |-> "none"] }

ModelLists ==
    UNION { [1..n -> ModelConfigs] : n \in 0..MaxConfigured }

\* what is at config_path: no file, an empty file (yaml.safe_load gives
\* None), or a mapping with or without its "models" and "settings" keys
ConfigFiles ==
    { [kind |-> "missing", has_models |-> FALSE, has_settings |-> FALSE,
       models |-> <<>>],
      [kind |-> "empty", has_models |-> FALSE, has_settings |-> FALSE,
       models |-> <<>>] }
    \cup { [kind |-> "mapping", has_models |-> FALSE, has_settings |-> hs,
            models |-> <<>>] : hs \in BOOLEAN }
    \cup { [kind |-> "mapping", has_models |-> TRUE, has_settings |-> hs,
            models |-> ms] : hs \in BOOLEAN, ms \in ModelLists }

\* what the outside world does during one iteration:
\*   read: reading the data file gives rows, an empty table, or raises
\*   answer: requests.post to the service raises ("refused"), or returns a
\*           status and a JSON body with this health_status
\*   body_ok: whether the body's data_drift block has the shape send_alert
\*           formats (a mapping with a numeric drift_share and a list of
\*           column names)
\*   delivery: whether the webhook POST succeeds
Worlds ==
    [read : {"rows", "empty", "raises"},
     answer : {"refused", "status_500", "healthy", "warning", "critical"},
     body_ok : BOOLEAN,
     delivery : {"ok", "fails"}]

\* load_current_data that hands an empty table on as data
load_current_data_unchecked(model_config, world) ==
    IF model_config.data = "file"
    THEN (IF world.read \in {"rows", "empty"} THEN "data" ELSE "raises")
    ELSE "none"

\* load_current_data (with execute_query): "data", "no_data" or "raises"
load_current_data(model_config, world) ==
    IF model_config.data = "file"
    THEN (IF world.read = "rows" THEN "data"
          ELSE IF world.read = "empty" THEN "empty" ELSE "raises")
    ELSE "none"

\* check_model: <<outcome, result, called>>; outcome "raises" stands for any
\* exception leaving check_model, called says whether the service was POSTed
check_model(i, model_config, world) ==
    LET raises == <<"raises", [of |-> i, status |-> "none", health_status |-> "none"]>>
    IN  IF model_config.form # "mapping" \/ ~model_config.has_name
        THEN raises \o <<FALSE>>                       \* model_config["name"]
        ELSE LET current == load_current_data(model_config, world)
             IN  IF current = "raises" THEN raises \o <<FALSE>>
                 ELSE IF current \in {"none", "empty"}
                 THEN <<"returns", [of |-> i, status |-> "skipped",
                                   health_status |-> "none"], FALSE>>
                 ELSE IF world.answer \in {"refused", "status_500"}
                 THEN raises \o <<TRUE>>
                 ELSE <<"returns", [of |-> i, status |-> "completed",
                                   health_status |-> world.answer], TRUE>>

\* send_alert: <<outcome, posted>>
send_alert(world) ==
    IF ~slack_webhook THEN <<"returns", FALSE>>
    ELSE IF ~world.body_ok THEN <<"raises", FALSE>>   \* building the message
    ELSE <<"returns", TRUE>>          \* the POST; its failure is logged

\* the except block of run_all_checks: model_config.get("name") raises on an
\* entry that is no mapping
ErrorEntry(i) == [of |-> i, status |-> "error", health_status |-> "none"]

\* main's state before run_all_checks
RunnerStart ==
    /\ rPc = "start"
    /\ rModels = <<>>
    /\ rIdx = 0
    /\ runner_results = <<>>
    /\ service_calls = <<>>
    /\ webhook_posts = <<>>
    /\ summary_file = "not written"

\* load_config and the first lines of run_all_checks
LoadConfig ==
    /\ rPc = "start"
    /\ IF config_file.kind = "empty"
       THEN \* config is None: config.get raises, main logs and exits 1
            /\ rPc' = "exit1"
            /\ UNCHANGED rModels
       ELSE /\ rPc' = "loop"
            /\ rModels' = IF config_file.kind = "mapping" /\ config_file.has_models
                          THEN config_file.models ELSE <<>>
    /\ UNCHANGED <<config_file, slack_webhook, rIdx, runner_results, service_calls,
                   webhook_posts, summary_file>>

\* one iteration of the for loop of run_all_checks
CheckNextModel(world) ==
    /\ rPc = "loop"
    /\ rIdx < Len(rModels)
    /\ LET i == rIdx + 1
           model_config == rModels[i]
           checked == check_model(i, model_config, world)
           alert == IF checked[1] = "returns" /\ checked[2].health_status = "critical"
                    THEN send_alert(world) ELSE <<"returns", FALSE>>
           appended == IF checked[1] = "returns"
                       THEN Append(runner_results, checked[2]) ELSE runner_results
           raised == checked[1] = "raises" \/ alert[1] = "raises"
       IN  /\ rIdx' = i
           /\ service_calls' = IF checked[3] THEN Append(service_calls, i)
                               ELSE service_calls
           /\ webhook_posts' = IF alert[2] THEN Append(webhook_posts, i)
                               ELSE webhook_posts
           /\ IF raised /\ model_config.form # "mapping"
              THEN \* the handler itself raises: run_all_checks is left
                   /\ runner_results' = appended
                   /\ rPc' = "exit1"
              ELSE /\ runner_results' = IF raised THEN Append(appended, ErrorEntry(i))
                                 ELSE appended
                   /\ rPc' = "loop"
    /\ UNCHANGED <<config_file, slack_webhook, rModels, summary_file>>

\* generate_summary, and the return to main
GenerateSummary ==
    /\ rPc = "loop"
    /\ rIdx = Len(rModels)
    /\ summary_file' = runner_results
    /\ rPc' = "exit0"
    /\ UNCHANGED <<config_file, slack_webhook, rModels, rIdx, runner_results,
                   service_calls, webhook_posts>>

----------------------------------------------------------------------------
(* training_pipeline.py: TrainingPipeline.run_pipeline                     *)

\* the steps of run_pipeline, in the order of its statements
Steps == <<"load_data", "validate_data", "prepare_features", "split_data",
           "train_model", "evaluate_model", "save_artifacts">>

\* the exceptions a step may raise
Errors == {"ValueError", "OSError"}

PipelineConfigs ==
    [validation_enabled : BOOLEAN, fail_on_validation_error : BOOLEAN]

NoParams == [pipeline_status |-> "none", error_message |-> "none"]

\* before run_pipeline is called
PipelineStart ==
    /\ pPc = "idle"
    /\ steps_run = <<>>
    /\ steps_returned = 0
    /\ validation_success = "none"
    /\ step_error = "none"
    /\ propagated = "none"
    /\ run_params = NoParams
    /\ runs_opened = 0
    /\ active_runs = 0

\* an except block that logs the failure and returns instead of re-raising
ExceptBlockSwallow(e) ==
    /\ step_error' = e
    /\ run_params' = [pipeline_status |-> "failed", error_message |-> e]
    /\ propagated' = "none"
    /\ active_runs' = active_runs - 1
    /\ pPc' = "returned"

\* lines 422-426: log the failure to the tracking run and re-raise; the with
\* block then ends the run
ExceptBlock(e) ==
    /\ step_error' = e
    /\ run_params' = [pipeline_status |-> "failed", error_message |-> e]
    /\ propagated' = e
    /\ active_runs' = active_runs - 1
    /\ pPc' = "raised"

\* a step that returned: control goes to the next statement
Continue(next) ==
    /\ steps_returned' = steps_returned + 1
    /\ pPc' = next
    /\ UNCHANGED <<step_error, propagated, run_params, active_runs>>

\* lines 366-371: start the tracking run and log the parameters
StartRunBody(outcome) ==
    /\ pPc = "idle"
    /\ runs_opened' = runs_opened + 1
    /\ IF outcome = "returns"
       THEN /\ active_runs' = active_runs + 1
            /\ pPc' = "load_data"
            /\ UNCHANGED <<step_error, propagated, run_params>>
       ELSE \* mlflow.log_params raised inside the try block
            /\ step_error' = outcome
            /\ run_params' = [pipeline_status |-> "failed", error_message |-> outcome]
            /\ propagated' = outcome
            /\ active_runs' = active_runs
            /\ pPc' = "raised"
    /\ UNCHANGED <<pipeline_config, steps_run, steps_returned, validation_success>>

\* one step of the try block: enter it, then go on or take the except block
StepBody(step, next, outcome) ==
    /\ pPc = step
    /\ steps_run' = Append(steps_run, step)
    /\ IF outcome = "returns"
       THEN Continue(next)
       ELSE ExceptBlock(outcome) /\ UNCHANGED steps_returned
    /\ UNCHANGED pipeline_config

\* a validation step that raises on a failed validation when
\* fail_on_validation_error is set
ValidateBodyStrict(outcome, success) ==
    LET failed == /\ outcome = "returns"
                  /\ pipeline_config.validation_enabled
                  /\ ~success
    IN  /\ StepBody("validate_data", "prepare_features",
                    IF failed /\ pipeline_config.fail_on_validation_error
                    THEN "ValueError" ELSE outcome)
        /\ validation_success' =
             IF outcome # "returns" THEN validation_success
             ELSE IF ~pipeline_config.validation_enabled THEN "true"
             ELSE IF success THEN "true" ELSE "false"
        /\ UNCHANGED runs_opened

\* validate_data (lines 135-170) and lines 382-385 of run_pipeline: success
\* is True when validation is disabled, else what the validator found;
\* run_pipeline only logs a warning when it is False, and no statement of
\* either reads fail_on_validation_error
ValidateBody(outcome, success) ==
    /\ StepBody("validate_data", "prepare_features", outcome)
    /\ validation_success' =
         IF outcome # "returns" THEN validation_success
         ELSE IF ~pipeline_config.validation_enabled THEN "true"
         ELSE IF success THEN "true" ELSE "false"
    /\ UNCHANGED runs_opened

\* train_model: BaseModel.train asks the tracking client for a run of its own
\* (start_run without nested=True while the pipeline's run is active); the
\* client either opens it or refuses with an exception
TrainBody(outcome, second_run) ==
    /\ StepBody("train_model", "evaluate_model",
                IF second_run = "refused" /\ outcome = "returns"
                THEN "Exception" ELSE outcome)
    /\ runs_opened' = IF second_run = "opened" THEN runs_opened + 1 ELSE runs_opened
    /\ UNCHANGED validation_success

\* save_artifacts and the return of the results
SaveBody(outcome) ==
    /\ pPc = "save_artifacts"
    /\ steps_run' = Append(steps_run, "save_artifacts")
    /\ IF outcome = "returns"
       THEN /\ steps_returned' = steps_returned + 1
            /\ pPc' = "returned"
            /\ active_runs' = active_runs - 1
            /\ UNCHANGED <<step_error, propagated, run_params>>
       ELSE ExceptBlock(outcome) /\ UNCHANGED steps_returned
    /\ UNCHANGED <<pipeline_config, validation_success, runs_opened>>

----------------------------------------------------------------------------
(* inference_pipeline.py: InferencePipeline; main.py: run_inference, main  *)

\* caps on the counters of inference_stats
MaxErrors == 2
MaxPredictions == 3
\* the largest number of batches predict_batch cuts the input into
MaxBatches == 2

\* lines 47-52
NoStats == [total_predictions |-> 0, total_inference_time |-> 0, error_count |-> 0]

\* what can go wrong inside the try block of predict
PredictFailures == {"preprocessing", "estimator"}

\* one predict call: n predictions come back after d ticks, or the call
\* fails with fail; [outcome, error, stats, num_samples]
predict(model, stats, n, d, fail) ==
    IF model = "none"
    THEN \* lines 182-183, before the try block
         [outcome |-> "raised", error |-> "No model loaded", stats |-> stats,
          num_samples |-> 0]
    ELSE IF fail # "none"
    THEN \* lines 227-230
         [outcome |-> "raised", error |-> fail,
          stats |-> [stats EXCEPT !.error_count = @ + 1], num_samples |-> 0]
    ELSE \* lines 219-225
         [outcome |-> "returned", error |-> "none",
          stats |-> [stats EXCEPT !.total_predictions = @ + n,
                                  !.total_inference_time = @ + d],
          num_samples |-> n]

\* the for loop of predict_batch over the batches calls[k..]: the first
\* failing predict ends it; [outcome, error, stats, made, num_samples]
RECURSIVE predict_loop(_, _, _, _)
predict_loop(model, stats, calls, k) ==
    IF k > Len(calls)
    THEN [outcome |-> "returned", error |-> "none", stats |-> stats, made |-> 0,
          num_samples |-> 0]
    ELSE LET r == predict(model, stats, calls[k].n, calls[k].d, calls[k].fail)
         IN  IF r.outcome = "raised"
             THEN [outcome |-> "raised", error |-> r.error, stats |-> r.stats,
                   made |-> 1, num_samples |-> 0]
             ELSE LET rest == predict_loop(model, r.stats, calls, k + 1)
                  IN  [rest EXCEPT !.made = @ + 1,
                                   !.num_samples = @ + r.num_samples]

\* predict_batch: file is "unsupported", "unreadable" or "ok"; save tells
\* whether writing the output raises
predict_batch(model, stats, file, calls, save) ==
    IF file # "ok"
    THEN [outcome |-> "raised", error |-> file, stats |-> stats, made |-> 0,
          num_samples |-> 0]
    ELSE LET r == predict_loop(model, stats, calls, 1)
         IN  IF r.outcome = "raised" THEN r
             ELSE IF r.num_samples = 0
             THEN \* line 285: total_time / len(all_predictions)
                  [r EXCEPT !.outcome = "raised", !.error = "ZeroDivisionError"]
             ELSE IF save = "raises"
             THEN [r EXCEPT !.outcome = "raised", !.error = "save"]
             ELSE r

\* health_check: the test prediction on one dummy row is made only when a
\* model is loaded; [status, stats, made]
health_check_pipeline(model, stats, d, fail) ==
    IF model = "none"
    THEN [status |-> "healthy", stats |-> stats, made |-> 0]
    ELSE LET r == predict(model, stats, 1, d, fail)
         IN  [status |-> IF r.outcome = "returned" THEN "healthy" ELSE "unhealthy",
              stats |-> r.stats, made |-> 1]

NoCall == [op |-> "none", outcome |-> "none", num_samples |-> 0]

\* an InferencePipeline built without arguments, and no command running
ObjectFresh ==
    /\ inf_model = "none"
    /\ inf_fe = FALSE
    /\ inference_stats = NoStats
    /\ inf_last = NoCall

NoArgs == [model |-> "none", feature_pipeline |-> FALSE, batch |-> FALSE,
           output |-> FALSE]

CliIdle ==
    /\ cli_args = NoArgs
    /\ cPc = "idle"
    /\ cli_calls = <<>>
    /\ cli_health = "none"
    /\ cli_printed = "none"

InferenceIdle == ObjectFresh /\ CliIdle

cliOnly == <<cli_args, cPc, cli_calls, cli_health, cli_printed>>

\* --- calls on the object ---
\* load_model_from_path / load_model_from_mlflow: the file gives a model, a
\* dict without a 'model' entry, or loading raises
LoadModel(found) ==
    /\ inf_model' = IF found = "model" THEN "loaded"
                    ELSE IF found = "no_model_entry" THEN "none" ELSE inf_model
    /\ inf_last' = [op |-> "load_model",
                    outcome |-> IF found = "raises" THEN "raised" ELSE "returned",
                    num_samples |-> 0]
    /\ UNCHANGED <<inf_fe, inference_stats>>

\* load_feature_pipeline: the FeatureEngineer is assigned before it loads
LoadFeaturePipeline(found) ==
    /\ inf_fe' = TRUE
    /\ inf_last' = [op |-> "load_feature_pipeline",
                    outcome |-> IF found = "raises" THEN "raised" ELSE "returned",
                    num_samples |-> 0]
    /\ UNCHANGED <<inf_model, inference_stats>>

WithinCaps(stats) ==
    /\ stats.error_count <= MaxErrors
    /\ stats.total_predictions <= MaxPredictions
    /\ stats.total_inference_time <= MaxPredictions

Predict(n, d, fail) ==
    LET r == predict(inf_model, inference_stats, n, d, fail)
    IN  /\ WithinCaps(r.stats)
        /\ inference_stats' = r.stats
        /\ inf_last' = [op |-> "predict", outcome |-> r.outcome,
                        num_samples |-> n]
        /\ UNCHANGED <<inf_model, inf_fe>>

PredictBatch(file, calls, save) ==
    LET r == predict_batch(inf_model, inference_stats, file, calls, save)
    IN  /\ WithinCaps(r.stats)
        /\ inference_stats' = r.stats
        /\ inf_last' = [op |-> "predict_batch", outcome |-> r.outcome,
                        num_samples |-> r.num_samples]
        /\ UNCHANGED <<inf_model, inf_fe>>

ObjectHealthCheck(d, fail) ==
    LET h == health_check_pipeline(inf_model, inference_stats, d, fail)
    IN  /\ WithinCaps(h.stats)
        /\ inference_stats' = h.stats
        /\ inf_last' = [op |-> "health_check", outcome |-> h.status,
                        num_samples |-> 0]
        /\ UNCHANGED <<inf_model, inf_fe>>

ResetStats ==
    /\ inference_stats' = NoStats
    /\ inf_last' = [op |-> "reset_stats", outcome |-> "returned", num_samples |-> 0]
    /\ UNCHANGED <<inf_model, inf_fe>>

\* --- main.py: the inference command ---
CliArgs ==
    [model : {"none", "uri", "path"}, feature_pipeline : BOOLEAN,
     batch : BOOLEAN, output : BOOLEAN]

\* the batches one predict_batch call goes through
BatchCalls ==
    UNION { [1..b -> [n : {1}, d : {1}, fail : {"none"} \cup PredictFailures]] :
              b \in 0..MaxBatches }

\* main, lines 297-305: a command that raised prints the error and exits 1
CliFails ==
    /\ cPc' = "exit1"
    /\ cli_printed' = "Error"

\* the check after health_check with the abort left out
health_gate_open(status) == TRUE

\* run_inference, lines 83-84: go on only when the report says healthy
health_gate(status) == status = "healthy"

\* InferencePipeline.__init__ called by run_inference (lines 75-79)
Construct(model_found, pipeline_found) ==
    /\ cPc = "construct"
    /\ cli_calls' = Append(cli_calls, "construct")
    /\ LET model_raises == cli_args.model # "none" /\ model_found = "raises"
           pipeline_raises == cli_args.feature_pipeline /\ pipeline_found = "raises"
       IN  /\ inf_model' = IF cli_args.model = "none" \/ model_found # "model"
                           THEN "none" ELSE "loaded"
           /\ inf_fe' = (~model_raises /\ cli_args.feature_pipeline)
           /\ inf_last' = [op |-> "construct",
                           outcome |-> IF model_raises \/ pipeline_raises
                                       THEN "raised" ELSE "returned",
                           num_samples |-> 0]
           /\ IF model_raises \/ pipeline_raises
              THEN CliFails
              ELSE cPc' = "health" /\ UNCHANGED cli_printed
    /\ UNCHANGED <<cli_args, cli_health, inference_stats>>

\* lines 81-84
HealthGate(d, fail) ==
    /\ cPc = "health"
    /\ cli_calls' = Append(cli_calls, "health_check")
    /\ LET h == health_check_pipeline(inf_model, inference_stats, d, fail)
       IN  /\ inference_stats' = h.stats
           /\ cli_health' = h.status
           /\ inf_last' = [op |-> "health_check", outcome |-> h.status,
                           num_samples |-> 0]
           /\ IF health_gate(h.status)
              THEN cPc' = "infer" /\ UNCHANGED cli_printed
              ELSE CliFails
    /\ UNCHANGED <<cli_args, inf_model, inf_fe>>

\* lines 86-116: batch or single inference on args.data_path
Infer(file, calls, save) ==
    /\ cPc = "infer"
    /\ IF cli_args.batch
       THEN LET r == predict_batch(inf_model, inference_stats, file, calls,
                                   IF cli_args.output THEN save ELSE "ok")
            IN  /\ cli_calls' = Append(cli_calls, "predict_batch")
                /\ inference_stats' = r.stats
                /\ inf_last' = [op |-> "predict_batch", outcome |-> r.outcome,
                                num_samples |-> r.num_samples]
       ELSE IF file # "ok" \/ calls = <<>>
       THEN \* loader.load_csv raised: predict is not reached
            /\ cli_calls' = Append(cli_calls, "load_csv")
            /\ inf_last' = [op |-> "load_csv", outcome |-> "raised", num_samples |-> 0]
            /\ UNCHANGED inference_stats
       ELSE LET r == predict(inf_model, inference_stats, calls[1].n, calls[1].d,
                             calls[1].fail)
                saved == r.outcome = "returned" /\ cli_args.output
            IN  /\ cli_calls' = IF saved
                                THEN cli_calls \o <<"predict", "save_predictions">>
                                ELSE Append(cli_calls, "predict")
                /\ inference_stats' = r.stats
                /\ inf_last' = [op |-> IF saved THEN "save_predictions" ELSE "predict",
                                outcome |-> IF saved /\ save = "raises" THEN "raised"
                                            ELSE r.outcome,
                                num_samples |-> r.num_samples]
    /\ IF inf_last'.outcome = "raised"
       THEN CliFails
       ELSE cPc' = "exit0" /\ cli_printed' = "completed"
    /\ UNCHANGED <<cli_args, cli_health, inf_model, inf_fe>>

----------------------------------------------------------------------------
(* feature_engineering.py: FeatureEngineer                                 *)

\* the column lists of the data frames handed to fit_transform
Frames == {"cols_a", "cols_b"}

\* FeatureEngineer.__init__ (lines 31-37); preprocessor and feature_selector
\* are "none", "unfitted" (built, not fitted) or "fitted"
FeatureIdle ==
    /\ fe = [preprocessor |-> "none", feature_selector |-> "none",
             is_fitted |-> FALSE, feature_names_in_ |-> "none",
             feature_names_out_ |-> "none"]
    /\ fe_last = [op |-> "none", outcome |-> "none"]
    /\ fe_file = <<>>

\* create_preprocessor: an unknown strategy is a KeyError before the
\* assignment; otherwise a new, unfitted ColumnTransformer replaces the old
\* (line 86) and no other field is written
create_preprocessor(strategy_known) ==
    /\ fe' = IF strategy_known THEN [fe EXCEPT !.preprocessor = "unfitted"] ELSE fe
    /\ fe_last' = [op |-> "create_preprocessor",
                   outcome |-> IF strategy_known THEN "returned" ELSE "raised"]
    /\ UNCHANGED fe_file

\* fit_transform: names_out is what _set_output_feature_names found (its bare
\* except leaves "none"); a fit that raises has written feature_names_in_
\* (line 110) and leaves the preprocessor as fitted or unfitted as it was
fit_transform(X, fit, names_out) ==
    /\ fe' = IF fe.preprocessor = "none" THEN fe
             ELSE IF fit = "raises"
             THEN [fe EXCEPT !.feature_names_in_ = X]
             ELSE [fe EXCEPT !.feature_names_in_ = X, !.preprocessor = "fitted",
                             !.is_fitted = TRUE, !.feature_names_out_ = names_out]
    /\ fe_last' = [op |-> "fit_transform",
                   outcome |-> IF fe.preprocessor = "none" \/ fit = "raises"
                               THEN "raised" ELSE "returned"]
    /\ UNCHANGED fe_file

\* transform: the guard is is_fitted; a preprocessor rebuilt after the fit
\* is refused by the library, bad input is refused by the fitted one
transform(input_ok) ==
    /\ fe' = fe
    /\ fe_last' = [op |-> "transform",
                   outcome |-> IF ~fe.is_fitted THEN "raised"
                               ELSE IF fe.preprocessor # "fitted" \/ ~input_ok
                               THEN "raised" ELSE "returned"]
    /\ UNCHANGED fe_file

\* select_features (lines 151-207): no look at is_fitted or preprocessor; the
\* selector is assigned before it is fitted on X, y
select_features(method_known, fit) ==
    /\ fe' = IF ~method_known THEN fe
             ELSE [fe EXCEPT !.feature_selector =
                                IF fit = "raises" THEN "unfitted" ELSE "fitted"]
    /\ fe_last' = [op |-> "select_features",
                   outcome |-> IF ~method_known \/ fit = "raises"
                               THEN "raised" ELSE "returned"]
    /\ UNCHANGED fe_file

\* save_pipeline (lines 226-237): joblib.dump writes a copy of the five
\* fields; a write that fails leaves the file as it was
save_pipeline(write_ok) ==
    /\ fe_file' = IF write_ok THEN <<fe>> ELSE fe_file
    /\ fe_last' = [op |-> "save_pipeline",
                   outcome |-> IF write_ok THEN "returned" ELSE "raised"]
    /\ UNCHANGED fe

\* load_pipeline (lines 239-249): joblib.load raises when there is no file,
\* before any field is assigned; otherwise the five fields are those saved
load_pipeline ==
    /\ fe' = IF fe_file = <<>> THEN fe ELSE fe_file[1]
    /\ fe_last' = [op |-> "load_pipeline",
                   outcome |-> IF fe_file = <<>> THEN "raised" ELSE "returned"]
    /\ UNCHANGED fe_file

----------------------------------------------------------------------------
(* base_model.py: BaseModel                                                *)

\* BaseModel.__init__ (lines 34-38), and no file written yet
ModelIdle ==
    /\ bm = [model |-> "none", is_trained |-> FALSE, feature_names |-> "none"]
    /\ bm_file = <<>>
    /\ bm_last = [op |-> "none", outcome |-> "none", error |-> "none"]

\* prepare_data (lines 53-87): stores the feature names before it splits
prepare_data(columns, split_ok) ==
    /\ bm' = [bm EXCEPT !.feature_names = columns]
    /\ bm_last' = [op |-> "prepare_data",
                   outcome |-> IF split_ok THEN "returned" ELSE "raised",
                   error |-> IF split_ok THEN "none" ELSE "ValueError"]
    /\ UNCHANGED bm_file

\* how far one train call gets: the tracking client refuses the run, the
\* estimator cannot be built, fit raises, evaluation or logging raises, or
\* the call returns
TrainOutcomes == {"start_run_raises", "create_model_raises", "fit_raises",
                  "evaluate_raises", "log_raises", "returns"}

\* train (lines 89-137): the new estimator is assigned before it is fitted,
\* is_trained is set right after fit and nowhere reset
train(outcome) ==
    /\ bm' = IF outcome \in {"start_run_raises", "create_model_raises"} THEN bm
             ELSE IF outcome = "fit_raises" THEN [bm EXCEPT !.model = "unfitted"]
             ELSE [bm EXCEPT !.model = "fitted", !.is_trained = TRUE]
    /\ bm_last' = [op |-> "train",
                   outcome |-> IF outcome = "returns" THEN "returned" ELSE "raised",
                   error |-> IF outcome = "returns" THEN "none" ELSE outcome]
    /\ UNCHANGED bm_file

\* predict and predict_proba (lines 139-170): the guard is is_trained; an
\* estimator that was never fitted is refused by the library
predict_model(op, input_ok) ==
    /\ bm_last' = IF ~bm.is_trained
                  THEN [op |-> op, outcome |-> "raised", error |-> "ValueError"]
                  ELSE IF bm.model # "fitted"
                  THEN [op |-> op, outcome |-> "raised", error |-> "NotFittedError"]
                  ELSE IF ~input_ok
                  THEN [op |-> op, outcome |-> "raised", error |-> "input"]
                  ELSE [op |-> op, outcome |-> "returned", error |-> "none"]
    /\ UNCHANGED <<bm, bm_file>>

\* save_model (lines 172-192): the guard is is_trained; whatever estimator
\* is held is pickled
save_model(write_ok) ==
    /\ bm_file' = IF bm.is_trained /\ write_ok THEN <<bm>> ELSE bm_file
    /\ bm_last' = IF ~bm.is_trained
                  THEN [op |-> "save_model", outcome |-> "raised", error |-> "ValueError"]
                  ELSE IF ~write_ok
                  THEN [op |-> "save_model", outcome |-> "raised", error |-> "OSError"]
                  ELSE [op |-> "save_model", outcome |-> "returned", error |-> "none"]
    /\ UNCHANGED bm

\* load_model (lines 194-209): takes model, feature_names and is_trained
\* from the file
load_model ==
    /\ bm' = IF bm_file = <<>> THEN bm ELSE bm_file[1]
    /\ bm_last' = IF bm_file = <<>>
                  THEN [op |-> "load_model", outcome |-> "raised", error |-> "OSError"]
                  ELSE [op |-> "load_model", outcome |-> "returned", error |-> "none"]
    /\ UNCHANGED bm_file

----------------------------------------------------------------------------
(* config_manager.py: ConfigManager.load_config                            *)

\* A YAML value is a scalar, null or a mapping.  Every value is a record
\* with the same fields: kind ("leaf", "null", "dict"), val (the scalar: here
\* the name of the source that wrote it) and items (key -> value).
NoItems == [k \in {} |-> 0]
Leaf(v) == [kind |-> "leaf", val |-> v, items |-> NoItems]
NoneValue == [kind |-> "null", val |-> "", items |-> NoItems]
Dict(items) == [kind |-> "dict", val |-> "", items |-> items]
Keys(d) == DOMAIN d.items

\* _deep_merge (lines 217-227)
RECURSIVE _deep_merge(_, _)
_deep_merge(base, override) ==
    Dict([key \in Keys(base) \cup Keys(override) |->
            IF key \notin Keys(override) THEN base.items[key]
            ELSE IF key \in Keys(base) /\ base.items[key].kind = "dict"
                    /\ override.items[key].kind = "dict"
            THEN _deep_merge(base.items[key], override.items[key])
            ELSE override.items[key]])

\* _remove_none_values (lines 229-238)
RECURSIVE _remove_none_values(_)
_remove_none_values(d) ==
    IF d.kind # "dict" THEN d
    ELSE Dict([k \in {k \in Keys(d) : d.items[k].kind # "null"} |->
                 _remove_none_values(d.items[k])])

\* os.getenv: the value when the variable is set, None when it is not
getenv(is_set) == IF is_set THEN Leaf("var") ELSE NoneValue

\* _load_secrets (lines 184-215): env says which variables are set;
\* secrets_file is the parsed secrets.<env>.yaml, or null when there is none
_load_secrets(env, secrets_file) ==
    LET env_secrets ==
          Dict([k \in {"mlflow", "data", "aws_region"} |->
                  IF k = "mlflow"
                  THEN Dict([j \in {"tracking_uri", "registry_uri"} |->
                               getenv(j = "tracking_uri" /\ env.MLFLOW_TRACKING_URI)])
                  ELSE IF k = "data"
                  THEN Dict([j \in {"s3_bucket", "s3_prefix"} |-> getenv(FALSE)])
                  ELSE getenv(env.AWS_REGION)])
        secrets == _remove_none_values(env_secrets)
    IN  IF secrets_file.kind = "dict" THEN _deep_merge(secrets, secrets_file)
        ELSE secrets

\* _load_config_file (lines 166-182): a missing or empty file gives {}
_load_config_file(file) == IF file.kind = "dict" THEN file ELSE Dict(NoItems)

\* load_config (lines 134-164), up to the conversion to the dataclass
load_config(sources) ==
    LET base_config == _load_config_file(sources.base)
        env_config == _load_config_file(sources.env)
        merged_config == _deep_merge(base_config, env_config)
        secrets == _load_secrets(sources.vars, sources.secrets)
    IN  IF secrets # Dict(NoItems) THEN _deep_merge(merged_config, secrets)
        ELSE merged_config

\* What a file may hold for the keys the model follows: a section "mlflow"
\* (absent, empty i.e. null, or a mapping over two leaves) and the top-level
\* leaf "aws_region"; who names the file, so that its scalars tell where
\* they came from.
FileContents(who) ==
    LET sections == {NoneValue}
                    \cup { Dict([k \in ks |-> Leaf(who)]) :
                             ks \in SUBSET {"tracking_uri", "experiment_name"} }
    IN  { Dict([k \in ks |-> IF k = "mlflow" THEN s ELSE Leaf(who)]) :
            ks \in SUBSET {"mlflow", "aws_region"}, s \in sections }

ConfigSources ==
    [base : FileContents("base"),
     env : {NoneValue} \cup FileContents("env"),
     vars : [MLFLOW_TRACKING_URI : BOOLEAN, AWS_REGION : BOOLEAN],
     secrets : {NoneValue} \cup FileContents("secrets")]

\* before load_config is called: no file, no variable
ConfigIdle ==
    /\ cfg_sources = [base |-> Dict(NoItems), env |-> NoneValue,
                      vars |-> [MLFLOW_TRACKING_URI |-> FALSE, AWS_REGION |-> FALSE],
                      secrets |-> NoneValue]
    /\ cfg_merged = NoneValue

----------------------------------------------------------------------------
(* config_manager.py: ConfigManager.validate_config                        *)
(* test_size and validation_size are fractions in the source; here they    *)
(* are kept in hundredths (0.2 is 20, 1 is 100).                           *)

\* the defaults of the dataclasses (lines 20-55)
DefaultConfig ==
    [type |-> "classification", algorithm |-> "random_forest", format |-> "csv",
     test_size |-> 20, validation_size |-> 10,
     numeric_strategy |-> "standard", categorical_strategy |-> "onehot"]

\* the configurations validated: every accepted value of every field, one
\* value that is not accepted, and split sizes below, on and above 0 and 1
Configs ==
    [type : {"classification", "regression", "unknown"},
     algorithm : {"random_forest", "xgboost", "linear_regression",
                  "logistic_regression", "svm"},
     format : {"csv", "parquet", "json", "xml"},
     test_size : {-10, 0, 20, 100, 110},
     validation_size : {-10, 0, 10, 100, 110},
     numeric_strategy : {"standard", "minmax", "robust", "none"},
     categorical_strategy : {"onehot", "ordinal", "label", "target"}]

\* errors.append when the condition holds
AppendIf(errors, condition, message) ==
    IF condition THEN Append(errors, message) ELSE errors

\* validate_config with the lower end of the test_size range accepted
validate_config_inclusive(config) ==
    LET e1 == AppendIf(<<>>, config.type \notin {"classification", "regression"},
                       "model type")
        e2 == AppendIf(e1, config.algorithm \notin
                             {"random_forest", "xgboost", "linear_regression",
                              "logistic_regression"}, "algorithm")
        e3 == AppendIf(e2, config.format \notin {"csv", "parquet", "json"},
                       "data format")
        e4 == AppendIf(e3, ~(0 <= config.test_size /\ config.test_size < 100),
                       "test_size")
        e5 == AppendIf(e4, ~(0 < config.validation_size
                             /\ config.validation_size < 100), "validation_size")
        e6 == AppendIf(e5, config.numeric_strategy \notin
                             {"standard", "minmax", "robust"}, "numeric_strategy")
        errors == AppendIf(e6, config.categorical_strategy \notin
                             {"onehot", "ordinal", "label"}, "categorical_strategy")
    IN  [called |-> TRUE, valid |-> errors = <<>>, logged |-> errors]

\* validate_config (lines 328-373): the checks in order, then one
\* logger.error per collected error
validate_config(config) ==
    LET e1 == AppendIf(<<>>, config.type \notin {"classification", "regression"},
                       "model type")
        e2 == AppendIf(e1, config.algorithm \notin
                             {"random_forest", "xgboost", "linear_regression",
                              "logistic_regression"}, "algorithm")
        e3 == AppendIf(e2, config.format \notin {"csv", "parquet", "json"},
                       "data format")
        e4 == AppendIf(e3, ~(0 < config.test_size /\ config.test_size < 100),
                       "test_size")
        e5 == AppendIf(e4, ~(0 < config.validation_size
                             /\ config.validation_size < 100), "validation_size")
        e6 == AppendIf(e5, config.numeric_strategy \notin
                             {"standard", "minmax", "robust"}, "numeric_strategy")
        errors == AppendIf(e6, config.categorical_strategy \notin
                             {"onehot", "ordinal", "label"}, "categorical_strategy")
    IN  [called |-> TRUE, valid |-> errors = <<>>, logged |-> errors]

ValidateIdle ==
    /\ vc_config = DefaultConfig
    /\ vc_result = [called |-> FALSE, valid |-> FALSE, logged |-> <<>>]

----------------------------------------------------------------------------
(* utils/monitoring.py: ModelMonitor.log_prediction and reset_history      *)

HISTORY_CAP == 1000      \* "Keep only last 1000 records"
MaxLogged == 1002        \* log_prediction calls between two resets

Baselines == {"stats_a", "stats_b"}

\* the record of the n-th call: its timestamp orders the records
Record(n) == [seq |-> n]

\* Python's history[-k:]
LastK(history, k) ==
    IF Len(history) <= k THEN history
    ELSE SubSeq(history, Len(history) - k + 1, Len(history))

\* log_prediction keeping the first records instead of the last
log_prediction_head(history, record) ==
    LET appended == Append(history, record)
    IN  IF Len(appended) > HISTORY_CAP THEN SubSeq(appended, 1, HISTORY_CAP)
        ELSE appended

\* log_prediction (lines 50-75) once the record is built: append, then trim
log_prediction(history, record) ==
    LET appended == Append(history, record)
    IN  IF Len(appended) > HISTORY_CAP THEN LastK(appended, HISTORY_CAP)
        ELSE appended

\* __init__ (lines 20-30)
MonitorIdle ==
    /\ baseline_stats = "none"
    /\ prediction_history = <<>>
    /\ mon_logged = 0
    /\ mon_last = "init"

\* set_baseline (lines 32-48)
SetBaseline ==
    /\ \E stats \in Baselines : baseline_stats' = stats
    /\ mon_last' = "set_baseline"
    /\ UNCHANGED <<prediction_history, mon_logged>>

\* log_prediction: building the record (lines 62-69) raises on data without a
\* mean, before anything is appended; otherwise the record is appended
LogPrediction ==
    /\ mon_logged < MaxLogged
    /\ \/ /\ prediction_history' = log_prediction(prediction_history, Record(mon_logged + 1))
          /\ mon_logged' = mon_logged + 1
          /\ mon_last' = "logged"
       \/ /\ mon_last' = "log_raised"
          /\ UNCHANGED <<prediction_history, mon_logged>>
    /\ UNCHANGED baseline_stats

\* reset_history (lines 143-146)
ResetHistory ==
    /\ prediction_history' = <<>>
    /\ mon_logged' = 0
    /\ mon_last' = "reset"
    /\ UNCHANGED baseline_stats

----------------------------------------------------------------------------
(* gitops/tests/test_gitops_controller_health.py                           *)
(* An optional integer of the Kubernetes API is <<>> when unset and <<n>>  *)
(* when set.                                                               *)

OptionalCounts == {<<>>, <<0>>, <<1>>, <<2>>}

Conditions ==
    [type : {"Available", "Progressing", "ReplicaFailure"},
     status : {"True", "False", "Unknown"}]

ConditionLists ==
    {<<>>} \cup {<<c>> : c \in Conditions}
           \cup {<<c, d>> : c \in Conditions, d \in Conditions}

\* get_deployment returned None (404)
Absent ==
    [present |-> FALSE, has_status |-> FALSE, replicas |-> <<>>,
     ready_replicas |-> <<>>, available_replicas |-> <<>>, conditions |-> <<>>]

\* the V1Deployment objects checked: without a status, and with every
\* combination of declared, ready and available counts and conditions
Deployments ==
    {[Absent EXCEPT !.present = TRUE, !.replicas = r] : r \in OptionalCounts}
    \cup [present : {TRUE}, has_status : {TRUE}, replicas : OptionalCounts,
          ready_replicas : OptionalCounts, available_replicas : OptionalCounts,
          conditions : ConditionLists]

\* Python's `x or default` on an optional integer: None and 0 are both falsy
Or(x, default) == IF x = <<>> \/ x[1] = 0 THEN default ELSE x[1]

\* the loop over status.conditions (lines 120-125): the first condition that
\* fails decides
RECURSIVE conditions_reason(_)
conditions_reason(conditions) ==
    IF conditions = <<>> THEN "Healthy"
    ELSE LET condition == Head(conditions)
         IN  IF condition.type = "Available" /\ condition.status # "True"
                THEN "Deployment not available"
             ELSE IF condition.type = "Progressing" /\ condition.status # "True"
                THEN "Deployment not progressing"
             ELSE conditions_reason(Tail(conditions))

\* check_deployment_health (lines 91-127)
check_deployment_health(deployment) ==
    IF ~deployment.present
       THEN [healthy |-> FALSE, reason |-> "Deployment not found"]
    ELSE IF ~deployment.has_status
       THEN [healthy |-> FALSE, reason |-> "Deployment status is None"]
    ELSE LET desired_replicas == Or(deployment.replicas, 1)
             ready_replicas == Or(deployment.ready_replicas, 0)
             available_replicas == Or(deployment.available_replicas, 0)
         IN  IF ready_replicas < desired_replicas
                THEN [healthy |-> FALSE, reason |-> "Not all replicas ready"]
             ELSE IF available_replicas < desired_replicas
                THEN [healthy |-> FALSE, reason |-> "Not all replicas available"]
             ELSE LET reason == conditions_reason(deployment.conditions)
                  IN  [healthy |-> reason = "Healthy", reason |-> reason]

NotChecked == [healthy |-> FALSE, reason |-> "not checked"]

\* what the cluster can answer to one get_deployment of the stability test:
\* nothing, a healthy deployment, or one whose replica is not ready
Ready ==
    [present |-> TRUE, has_status |-> TRUE, replicas |-> <<1>>,
     ready_replicas |-> <<1>>, available_replicas |-> <<1>>,
     conditions |-> <<[type |-> "Available", status |-> "True"]>>]

Observations == {Absent, Ready, [Ready EXCEPT !.ready_replicas = <<0>>]}

GitopsIdle ==
    /\ gh_deployment = Absent
    /\ gh_result = NotChecked
    /\ check_count = 2
    /\ stPc = "idle"
    /\ observed = <<>>
    /\ health_checks = <<>>

stabilityOnly == <<check_count, stPc, observed, health_checks>>

\* one call of check_deployment_health
CheckDeploymentHealth ==
    /\ gh_result = NotChecked
    /\ gh_result' = check_deployment_health(gh_deployment)
    /\ UNCHANGED <<gh_deployment, stabilityOnly>>

\* test_controller_health_stability for one controller (lines 282-308):
\* the namespace check, check_count times get_deployment and
\* check_deployment_health with a sleep in between, then the assertion
CheckNamespace(exists) ==
    /\ stPc = "namespace"
    /\ stPc' = IF exists THEN "checking" ELSE "skipped"
    /\ UNCHANGED <<gh_deployment, gh_result, check_count, observed, health_checks>>

Observe(deployment) ==
    /\ stPc = "checking"
    /\ Len(observed) < check_count
    /\ observed' = Append(observed, deployment)
    /\ health_checks' =
          IF deployment.present
             THEN Append(health_checks, check_deployment_health(deployment).healthy)
             ELSE health_checks
    /\ UNCHANGED <<gh_deployment, gh_result, check_count, stPc>>

AssertStable ==
    /\ stPc = "checking"
    /\ Len(observed) = check_count
    /\ stPc' = IF \A i \in 1..Len(health_checks) : health_checks[i] = health_checks[1]
                  THEN "passed" ELSE "unstable"
    /\ UNCHANGED <<gh_deployment, gh_result, check_count, observed, health_checks>>

----------------------------------------------------------------------------
(* monitoring_service.py: the handlers statement by statement, for         *)
(* requests that are in flight together.  uvicorn.run(app) serves them on   *)
(* one event loop; a handler gives the loop up only at an await.            *)

\* the requests in flight: two registrations of model "a" version "1" with
\* different reference files, its unregistration and a drift check of it
Inflight == {"register", "register_again", "unregister", "drift_check"}

HandlerOf(r) ==
    CASE r \in {"register", "register_again"} -> "register"
      [] r = "unregister" -> "unregister"
      [] r = "drift_check" -> "drift"

ReferenceOf(r) == IF r = "register" THEN "ref_v1" ELSE "ref_v2"

\* the name every request of the set carries, and the version registered
InflightName == <<"a">>
InflightVersion == <<"1">>

Accepted == [pc |-> "pending", model_key |-> None, status |-> 0, error |-> "none"]

\* a handler given an await between its first and second store
KeepsLoopAwaiting(r, pc) == IF pc = "store_exporter" THEN "none" ELSE r

\* who holds the event loop when handler r has reached pc: no handler
\* contains an await (lines 86-254), so r keeps it until it returns or raises
KeepsLoop(r, pc) == r

\* the handler of r may take its next step: it holds the loop, or it is
\* resumed at an await while no handler holds it
Runs(r) ==
    \/ loop_running = r
    \/ loop_running = "none" /\ req[r].pc \notin {"pending", "done"}

Goto(r, pc) ==
    /\ req' = [req EXCEPT ![r].pc = pc]
    /\ loop_running' = KeepsLoop(r, pc)

\* the handler returns or raises: the response is sent, the loop is free
Answer(r, status, error) ==
    /\ req' = [req EXCEPT ![r].pc = "done", ![r].status = status, ![r].error = error]
    /\ loop_running' = "none"
    /\ last' = Response(HandlerOf(r), InflightName, status, req[r].model_key)

mapsOnly == <<monitors, exporters, reference_datasets>>

\* the event loop calls the handler of a request that is waiting
Begin(r) ==
    /\ loop_running = "none"
    /\ req[r].pc = "pending"
    /\ req' = [req EXCEPT ![r].pc = "entered"]
    /\ loop_running' = r
    /\ UNCHANGED <<mapsOnly, last>>

\* register_model, lines 89-114: read the file, build monitor and exporter
RegisterLoad(r, readable) ==
    /\ HandlerOf(r) = "register" /\ Runs(r) /\ req[r].pc = "entered"
    /\ IF readable
          THEN /\ req' = [req EXCEPT ![r].pc = "store_monitor",
                                     ![r].model_key = ModelKey(InflightName, InflightVersion)]
               /\ loop_running' = KeepsLoop(r, "store_monitor")
               /\ UNCHANGED last
          ELSE Answer(r, 500, "read")
    /\ UNCHANGED mapsOnly

\* line 115
RegisterStoreMonitor(r) ==
    /\ HandlerOf(r) = "register" /\ Runs(r) /\ req[r].pc = "store_monitor"
    /\ monitors' = DictSet(monitors, req[r].model_key, NewModelMonitor(ReferenceOf(r)))
    /\ Goto(r, "store_exporter")
    /\ UNCHANGED <<exporters, reference_datasets, last>>

\* line 116
RegisterStoreExporter(r) ==
    /\ HandlerOf(r) = "register" /\ Runs(r) /\ req[r].pc = "store_exporter"
    /\ exporters' = DictSet(exporters, req[r].model_key,
                            NewMetricsExporter(InflightName, InflightVersion))
    /\ Goto(r, "store_reference")
    /\ UNCHANGED <<monitors, reference_datasets, last>>

\* lines 117-126
RegisterStoreReference(r) ==
    /\ HandlerOf(r) = "register" /\ Runs(r) /\ req[r].pc = "store_reference"
    /\ reference_datasets' = DictSet(reference_datasets, req[r].model_key, ReferenceOf(r))
    /\ Answer(r, 200, "none")
    /\ UNCHANGED <<monitors, exporters>>

\* the first statements of unregister_model (246-248) and of check_drift
\* (189-191)
FindModelKey(r) ==
    /\ HandlerOf(r) \in {"unregister", "drift"} /\ Runs(r) /\ req[r].pc = "entered"
    /\ LET model_key == _find_model_key(InflightName)
           next == IF HandlerOf(r) = "unregister" THEN "del_monitor" ELSE "get_monitor"
       IN  IF model_key = None
              THEN Answer(r, 404, "none")
              ELSE /\ req' = [req EXCEPT ![r].pc = next, ![r].model_key = model_key]
                   /\ loop_running' = KeepsLoop(r, next)
                   /\ UNCHANGED last
    /\ UNCHANGED mapsOnly

\* unregister_model, lines 250-254: del raises KeyError on a missing key
UnregisterDelMonitor(r) ==
    /\ HandlerOf(r) = "unregister" /\ Runs(r) /\ req[r].pc = "del_monitor"
    /\ IF DictHas(monitors, req[r].model_key)
          THEN /\ monitors' = DictDel(monitors, req[r].model_key)
               /\ Goto(r, "del_exporter")
               /\ UNCHANGED last
          ELSE Answer(r, 500, "KeyError") /\ UNCHANGED monitors
    /\ UNCHANGED <<exporters, reference_datasets>>

UnregisterDelExporter(r) ==
    /\ HandlerOf(r) = "unregister" /\ Runs(r) /\ req[r].pc = "del_exporter"
    /\ IF DictHas(exporters, req[r].model_key)
          THEN /\ exporters' = DictDel(exporters, req[r].model_key)
               /\ Goto(r, "del_reference")
               /\ UNCHANGED last
          ELSE Answer(r, 500, "KeyError") /\ UNCHANGED exporters
    /\ UNCHANGED <<monitors, reference_datasets>>

UnregisterDelReference(r) ==
    /\ HandlerOf(r) = "unregister" /\ Runs(r) /\ req[r].pc = "del_reference"
    /\ IF DictHas(reference_datasets, req[r].model_key)
          THEN /\ reference_datasets' = DictDel(reference_datasets, req[r].model_key)
               /\ Answer(r, 200, "none")
          ELSE Answer(r, 500, "KeyError") /\ UNCHANGED reference_datasets
    /\ UNCHANGED <<monitors, exporters>>

\* check_drift, lines 193 and 194: a subscript raises KeyError on a missing key
DriftGetMonitor(r) ==
    /\ HandlerOf(r) = "drift" /\ Runs(r) /\ req[r].pc = "get_monitor"
    /\ IF DictHas(monitors, req[r].model_key)
          THEN Goto(r, "get_exporter") /\ UNCHANGED last
          ELSE Answer(r, 500, "KeyError")
    /\ UNCHANGED mapsOnly

DriftGetExporter(r) ==
    /\ HandlerOf(r) = "drift" /\ Runs(r) /\ req[r].pc = "get_exporter"
    /\ IF DictHas(exporters, req[r].model_key)
          THEN Goto(r, "detect") /\ UNCHANGED last
          ELSE Answer(r, 500, "KeyError")
    /\ UNCHANGED mapsOnly

\* check_drift, lines 196-211: the engine raises, or the exporter the handler
\* holds (the stored one, while the key is stored) gets the drift gauges set
DriftDetect(r, fail, drift) ==
    /\ HandlerOf(r) = "drift" /\ Runs(r) /\ req[r].pc = "detect"
    /\ IF fail = "engine"
          THEN Answer(r, 500, "engine") /\ UNCHANGED mapsOnly
          ELSE /\ monitors' =
                    IF DictHas(monitors, req[r].model_key)
                    THEN DictSet(monitors, req[r].model_key,
                            [DictGet(monitors, req[r].model_key)
                                 EXCEPT !.last_results = drift])
                    ELSE monitors
               /\ exporters' =
                    IF DictHas(exporters, req[r].model_key)
                    THEN DictSet(exporters, req[r].model_key,
                            update_drift_metrics(
                                DictGet(exporters, req[r].model_key), drift))
                    ELSE exporters
               /\ Answer(r, 200, "none")
               /\ UNCHANGED reference_datasets

\* no request has been accepted yet
LoopIdle ==
    /\ loop_running = "none"
    /\ req = [r \in Inflight |-> Accepted]

----------------------------------------------------------------------------
(* monitoring_service.py and model_monitor.py: the history of one model    *)

\* the monitoring results one monitor keeps
MaxHistory == 2

\* the model registered, and the name its requests carry
HistoryModel == <<(<<"a">>), (<<"1">>)>>
HistoryNames == { <<"a">> }

\* ModelMonitor.run_monitoring was called and returned (lines 95-138): the
\* key resolved, the current data loaded, the engine did not raise
MonitorReturned(model_name, source, fail) ==
    /\ _find_model_key(model_name) # None
    /\ source \in LoadedSources
    /\ fail # "engine"

\* lines 221-224: the body of the answer
HistoryBody(model_name) ==
    LET model_key == _find_model_key(model_name)
    IN  IF model_key = None THEN <<>> ELSE DictGet(monitors, model_key).history

HistoryIdle ==
    /\ runs_returned = <<>>
    /\ history_response = <<>>

----------------------------------------------------------------------------
(* inference_pipeline.py: InferencePipeline.predict_batch, row by row      *)

MaxRows == 6
MaxBatchSize == 4

\* the file's rows are numbered in file order
Rows(n) == [i \in 1..n |-> i]

\* data.iloc[i:i+batch_size], i counted from 0
Iloc(data, i, batch_size) ==
    SubSeq(data, i + 1, IF i + batch_size < Len(data) THEN i + batch_size ELSE Len(data))

\* what the estimator predicts for the rows of one chunk, and the time one
\* predict call on them takes
PredictionsFor(chunk) == [j \in 1..Len(chunk) |-> [row |-> chunk[j]]]
InferenceTime(chunk) == Len(chunk) + 1

\* lines 266-278: for i in range(0, len(data), batch_size); k counts the
\* predict calls and fail_at names the call that raises (0: none does)
RECURSIVE batch_loop(_, _, _, _, _, _)
batch_loop(data, batch_size, i, k, model, fail_at) ==
    IF i >= Len(data)
    THEN [outcome |-> "returned", error |-> "none", chunks |-> <<>>,
          all_predictions |-> <<>>, total_time |-> 0]
    ELSE LET batch_data == Iloc(data, i, batch_size)
         IN  IF model = "none" \/ fail_at = k
             THEN [outcome |-> "raised",
                   error |-> IF model = "none" THEN "No model loaded" ELSE "predict",
                   chunks |-> <<batch_data>>, all_predictions |-> <<>>,
                   total_time |-> 0]
             ELSE LET rest == batch_loop(data, batch_size, i + batch_size, k + 1,
                                         model, fail_at)
                  IN  [rest EXCEPT
                         !.chunks = <<batch_data>> \o @,
                         !.all_predictions =
                             IF rest.outcome = "raised" THEN <<>>
                             ELSE PredictionsFor(batch_data) \o @,
                         !.total_time =
                             IF rest.outcome = "raised" THEN 0
                             ELSE InferenceTime(batch_data) + @]

\* predict_batch (lines 232-312) on a readable file of n rows
predict_batch_rows(n, batch_size, model, fail_at) ==
    LET data == Rows(n)
        r == batch_loop(data, batch_size, 0, 1, model, fail_at)
    IN  IF r.outcome = "raised"
        THEN [r EXCEPT !.all_predictions = <<>>] @@ [called |-> TRUE, num_samples |-> 0]
        ELSE IF Len(r.all_predictions) = 0
        THEN \* line 285: total_time / len(all_predictions)
             [r EXCEPT !.outcome = "raised", !.error = "ZeroDivisionError"]
                @@ [called |-> TRUE, num_samples |-> 0]
        ELSE r @@ [called |-> TRUE, num_samples |-> Len(r.all_predictions)]

NotCalled ==
    [called |-> FALSE, outcome |-> "none", error |-> "none", chunks |-> <<>>,
     all_predictions |-> <<>>, total_time |-> 0, num_samples |-> 0]

BatchInputs ==
    [n : 0..MaxRows, batch_size : 1..MaxBatchSize, model : {"none", "fitted"},
     fail_at : 0..MaxRows]

BatchIdle ==
    /\ pb_input = [n |-> 0, batch_size |-> 1, model |-> "none", fail_at |-> 0]
    /\ pb_result = NotCalled

----------------------------------------------------------------------------
(* the specifications *)


IdleResults == [data_drift |-> NoDrift, model_performance |-> NoPerf]

HealthIdle ==
    /\ hResults = IdleResults
    /\ hVerdict = "none"

RunnerIdle ==
    /\ RunnerStart
    /\ config_file = [kind |-> "missing", has_models |-> FALSE,
                      has_settings |-> FALSE, models |-> <<>>]
    /\ slack_webhook = FALSE

PipelineIdle ==
    /\ PipelineStart
    /\ pipeline_config = [validation_enabled |-> TRUE,
                          fail_on_validation_error |-> FALSE]

\* the components of the first part, and those of the second, before
\* anything is called on them
CoreIdle == HealthIdle /\ ServiceIdle /\ RunnerIdle /\ PipelineIdle
LibIdle == InferenceIdle /\ FeatureIdle /\ ModelIdle /\ ConfigIdle /\ ValidateIdle /\ MonitorIdle /\ GitopsIdle /\ LoopIdle /\ HistoryIdle /\ BatchIdle
IdleButInference == CoreIdle /\ FeatureIdle /\ ModelIdle /\ ConfigIdle /\ ValidateIdle /\ MonitorIdle /\ GitopsIdle /\ LoopIdle /\ HistoryIdle /\ BatchIdle
IdleButFeature == CoreIdle /\ InferenceIdle /\ ModelIdle /\ ConfigIdle /\ ValidateIdle /\ MonitorIdle /\ GitopsIdle /\ LoopIdle /\ HistoryIdle /\ BatchIdle
IdleButModel == CoreIdle /\ InferenceIdle /\ FeatureIdle /\ ConfigIdle /\ ValidateIdle /\ MonitorIdle /\ GitopsIdle /\ LoopIdle /\ HistoryIdle /\ BatchIdle
IdleButConfig == CoreIdle /\ InferenceIdle /\ FeatureIdle /\ ModelIdle /\ ValidateIdle /\ MonitorIdle /\ GitopsIdle /\ LoopIdle /\ HistoryIdle /\ BatchIdle
IdleButValidate == CoreIdle /\ InferenceIdle /\ FeatureIdle /\ ModelIdle /\ ConfigIdle /\ MonitorIdle /\ GitopsIdle /\ LoopIdle /\ HistoryIdle /\ BatchIdle
IdleButMonitor == CoreIdle /\ InferenceIdle /\ FeatureIdle /\ ModelIdle /\ ConfigIdle /\ ValidateIdle /\ GitopsIdle /\ LoopIdle /\ HistoryIdle /\ BatchIdle
IdleButGitops == CoreIdle /\ InferenceIdle /\ FeatureIdle /\ ModelIdle /\ ConfigIdle /\ ValidateIdle /\ MonitorIdle /\ LoopIdle /\ HistoryIdle /\ BatchIdle
IdleButLoop == CoreIdle /\ InferenceIdle /\ FeatureIdle /\ ModelIdle /\ ConfigIdle /\ ValidateIdle /\ MonitorIdle /\ GitopsIdle /\ HistoryIdle /\ BatchIdle
IdleButHistory == CoreIdle /\ InferenceIdle /\ FeatureIdle /\ ModelIdle /\ ConfigIdle /\ ValidateIdle /\ MonitorIdle /\ GitopsIdle /\ LoopIdle /\ BatchIdle
IdleButBatch == CoreIdle /\ InferenceIdle /\ FeatureIdle /\ ModelIdle /\ ConfigIdle /\ ValidateIdle /\ MonitorIdle /\ GitopsIdle /\ LoopIdle /\ HistoryIdle

\* --- _determine_health on every result ---
InitHealth ==
    /\ hResults \in HealthInputs
    /\ hVerdict = "none"
    /\ ServiceIdle
    /\ RunnerIdle
    /\ PipelineIdle
    /\ LibIdle

DetermineHealth ==
    /\ hVerdict = "none"
    /\ hVerdict' = _determine_health(hResults)
    /\ UNCHANGED hResults
    /\ UNCHANGED <<serviceVars, runnerVars, pipelineVars, libVars>>

NextHealth == DetermineHealth

SpecHealth == InitHealth /\ [][NextHealth]_vars

\* --- the Monitoring HTTP Service, one request after the other ---
InitService ==
    /\ ServiceIdle
    /\ HealthIdle
    /\ RunnerIdle
    /\ PipelineIdle
    /\ LibIdle

Register ==
    /\ \E r \in RegisterRequests, path \in ReferencePaths :
          register_model(r[1], r[2], path)
    /\ UNCHANGED <<healthVars, runnerVars, pipelineVars, libVars>>

\* a request that ends before the engine runs leaves the engine's answer open
RunMonitoring ==
    /\ \E n \in LookupNames :
        \/ \E source \in CurrentSources \ LoadedSources :
              run_monitoring(n, source, "none", NoDrift, NoPerf)
        \/ \E source \in LoadedSources :
              \/ run_monitoring(n, source, "engine", NoDrift, NoPerf)
              \/ \E fail \in {"none", "export"}, out \in EngineOutcomes :
                    run_monitoring(n, source, fail, out[1], out[2])
    /\ UNCHANGED <<healthVars, runnerVars, pipelineVars, libVars>>

CheckDrift ==
    /\ \E n \in LookupNames :
        \/ check_drift(n, "engine", NoDrift)
        \/ \E drift \in DriftOutcomes : check_drift(n, "none", drift)
    /\ UNCHANGED <<healthVars, runnerVars, pipelineVars, libVars>>

GetHistory ==
    /\ \E n \in LookupNames : get_monitoring_history(n)
    /\ UNCHANGED <<healthVars, runnerVars, pipelineVars, libVars>>

Unregister ==
    /\ \E n \in LookupNames : unregister_model(n)
    /\ UNCHANGED <<healthVars, runnerVars, pipelineVars, libVars>>

HealthCheck ==
    /\ health_check
    /\ UNCHANGED <<healthVars, runnerVars, pipelineVars, libVars>>

ListModels ==
    /\ list_models
    /\ UNCHANGED <<healthVars, runnerVars, pipelineVars, libVars>>

NextService ==
    \/ Register
    \/ RunMonitoring
    \/ CheckDrift
    \/ GetHistory
    \/ Unregister
    \/ HealthCheck
    \/ ListModels

SpecService == InitService /\ [][NextService]_vars

\* --- one execution of the Drift Check Runner, for every configuration ---
InitRunner ==
    /\ RunnerStart
    /\ config_file \in ConfigFiles
    /\ slack_webhook \in BOOLEAN
    /\ ServiceIdle
    /\ HealthIdle
    /\ PipelineIdle
    /\ LibIdle

RunnerLoadConfig ==
    /\ LoadConfig
    /\ UNCHANGED <<healthVars, serviceVars, pipelineVars, libVars>>

RunnerCheckModel ==
    /\ \E world \in Worlds : CheckNextModel(world)
    /\ UNCHANGED <<healthVars, serviceVars, pipelineVars, libVars>>

RunnerGenerateSummary ==
    /\ GenerateSummary
    /\ UNCHANGED <<healthVars, serviceVars, pipelineVars, libVars>>

NextRunner ==
    \/ RunnerLoadConfig
    \/ RunnerCheckModel
    \/ RunnerGenerateSummary

SpecRunner == InitRunner /\ [][NextRunner]_vars

\* --- one call of TrainingPipeline.run_pipeline, for every outcome ---
InitPipeline ==
    /\ PipelineStart
    /\ pipeline_config \in PipelineConfigs
    /\ ServiceIdle
    /\ HealthIdle
    /\ RunnerIdle
    /\ LibIdle

StepOutcomes == {"returns"} \cup Errors

StartRun ==
    /\ \E outcome \in StepOutcomes : StartRunBody(outcome)
    /\ UNCHANGED <<healthVars, serviceVars, runnerVars, libVars>>

LoadData ==
    /\ \E outcome \in StepOutcomes : StepBody("load_data", "validate_data", outcome)
    /\ UNCHANGED <<validation_success, runs_opened>>
    /\ UNCHANGED <<healthVars, serviceVars, runnerVars, libVars>>

ValidateData ==
    /\ \E outcome \in StepOutcomes, success \in BOOLEAN :
          ValidateBody(outcome, success)
    /\ UNCHANGED <<healthVars, serviceVars, runnerVars, libVars>>

PrepareFeatures ==
    /\ \E outcome \in StepOutcomes :
          StepBody("prepare_features", "split_data", outcome)
    /\ UNCHANGED <<validation_success, runs_opened>>
    /\ UNCHANGED <<healthVars, serviceVars, runnerVars, libVars>>

SplitData ==
    /\ \E outcome \in StepOutcomes : StepBody("split_data", "train_model", outcome)
    /\ UNCHANGED <<validation_success, runs_opened>>
    /\ UNCHANGED <<healthVars, serviceVars, runnerVars, libVars>>

TrainModel ==
    /\ \E outcome \in StepOutcomes, second_run \in {"opened", "refused"} :
          TrainBody(outcome, second_run)
    /\ UNCHANGED <<healthVars, serviceVars, runnerVars, libVars>>

EvaluateModel ==
    /\ \E outcome \in StepOutcomes :
          StepBody("evaluate_model", "save_artifacts", outcome)
    /\ UNCHANGED <<validation_success, runs_opened>>
    /\ UNCHANGED <<healthVars, serviceVars, runnerVars, libVars>>

SaveArtifacts ==
    /\ \E outcome \in StepOutcomes : SaveBody(outcome)
    /\ UNCHANGED <<healthVars, serviceVars, runnerVars, libVars>>

NextPipeline ==
    \/ StartRun
    \/ LoadData
    \/ ValidateData
    \/ PrepareFeatures
    \/ SplitData
    \/ TrainModel
    \/ EvaluateModel
    \/ SaveArtifacts

SpecPipeline == InitPipeline /\ [][NextPipeline]_vars

----------------------------------------------------------------------------
\* C1: _determine_health returns the verdict of the first matching rule of
\* the ordered list (1) drift and share > 0.5 -> critical, (2) drift and
\* share > 0.3 -> warning, (3) degradation > 20 -> critical, (4) degradation
\* > 10 -> warning, (5) healthy; a result without a performance block counts
\* as degradation 0.
RuleVerdict(dataset_drift, drift_share, degradation) ==
    CASE dataset_drift /\ drift_share > 50 -> "critical"
      [] dataset_drift /\ drift_share > 30 -> "warning"
      [] degradation > 20 -> "critical"
      [] degradation > 10 -> "warning"
      [] OTHER -> "healthy"

C1_FirstMatchingRule ==
    hVerdict # "none" =>
        hVerdict = RuleVerdict(
            hResults.data_drift.present /\ hResults.data_drift.has_flag
                /\ hResults.data_drift.dataset_drift,
            IF hResults.data_drift.present /\ hResults.data_drift.has_share
                THEN hResults.data_drift.drift_share ELSE 0,
            IF hResults.model_performance.present
                  /\ hResults.model_performance.has_degradation
                THEN hResults.model_performance.performance_degradation ELSE 0)

\* a drifted result between the two share thresholds whose verdict is decided
\* by rule (3), and a result with no performance block
C1_Witness ==
    /\ hVerdict = "critical"
    /\ hResults.data_drift.dataset_drift
    /\ hResults.data_drift.drift_share = 30
    /\ hResults.model_performance.performance_degradation = 21


----------------------------------------------------------------------------
\* the keys of the three maps, as sets
KeySet(d) == { d[i].k : i \in 1..Len(d) }
ServiceMaps == <<monitors, exporters, reference_datasets>>
ModelScopedOps == {"run", "drift", "history", "unregister"}

\* the key the claimed rule picks: the name itself when it is stored, else the
\* earliest stored key that reads <name>:<anything>, else None
HasForm(key, name) ==
    /\ Len(key) > Len(name)
    /\ \A i \in 1..Len(name) : key[i] = name[i]
    /\ key[Len(name) + 1] = ":"
ClaimedKey(name) ==
    IF name \in KeySet(monitors) THEN name
    ELSE IF \E i \in 1..Len(monitors) : HasForm(monitors[i].k, name)
    THEN LET first == CHOOSE i \in 1..Len(monitors) :
                        /\ HasForm(monitors[i].k, name)
                        /\ \A j \in 1..(i - 1) : ~HasForm(monitors[j].k, name)
         IN  monitors[first].k
    ELSE None

\* C2: every model-scoped endpoint (monitoring/run, drift/check, history,
\* delete) resolves the model as: the given name if it is a stored key, else
\* the first stored key of the form <name>:<anything>; with neither, the
\* request is answered 404 and no state changes.
C2_KeyResolution ==
    [][ last'.op \in ModelScopedOps =>
            IF ClaimedKey(last'.name) = None
            THEN last'.status = 404 /\ UNCHANGED ServiceMaps
            ELSE last'.status # 404 /\ last'.model_key = ClaimedKey(last'.name) ]_vars

\* "a:1" was asked for while "a:1:2" is stored before "a:1": the exact key
\* was taken, not the first prefixed one
C2_Witness ==
    /\ DictKeys(monitors) = << <<"a", ":", "1", ":", "2">>, <<"a", ":", "1">> >>
    /\ last.op \in ModelScopedOps
    /\ last.name = <<"a", ":", "1">>
    /\ last.status = 200
    /\ last.model_key = <<"a", ":", "1">>

\* C5: bad input is answered 400: a register request whose path ends in
\* neither .csv nor .parquet, and a monitoring/run request for a registered
\* model that carries neither current_data_path nor current_data.
C5_BadInputIs400 ==
    [][ /\ \A r \in RegisterRequests, path \in ReferencePaths :
             (register_model(r[1], r[2], path) /\ path.ext \notin {"csv", "parquet"})
                => last'.status = 400
        /\ \A n \in LookupNames :
             (run_monitoring(n, "none", "none", NoDrift, NoPerf)
                /\ _find_model_key(n) # None)
                => last'.status = 400 ]_vars

\* C6: DELETE /models/{name} resolving to K removes K from all three maps,
\* leaves every other entry of the three maps as it was, and K is no longer
\* among the keys GET /health and GET /models list.
C6_UnregisterFrame ==
    [][ (last'.op = "unregister" /\ last'.status = 200) =>
            LET K == last'.model_key
                Others(d) == SelectSeq(d, LAMBDA e : e.k # K)
            IN  /\ K \in KeySet(monitors)
                /\ K \notin KeySet(monitors') \cup KeySet(exporters')
                                \cup KeySet(reference_datasets')
                /\ monitors' = Others(monitors)
                /\ exporters' = Others(exporters)
                /\ reference_datasets' = Others(reference_datasets) ]_vars

\* a model was unregistered while another one, with a monitoring result in
\* its history, stays registered
C6_Witness ==
    /\ last.op = "unregister"
    /\ last.status = 200
    /\ last.model_key \notin KeySet(monitors)
    /\ Len(monitors) = 1
    /\ Len(monitors[1].v.history) = 1
    /\ Len(exporters) = 1 /\ Len(reference_datasets) = 1

\* C7 as the spec states it: once a key is registered, no later request
\* changes the reference dataset stored under it, nor the dataset its
\* monitor was built on, for as long as the key stays registered.
C7_ReferenceImmutable ==
    [][ \A k \in KeySet(reference_datasets) \cap KeySet(reference_datasets') :
          /\ DictGet(reference_datasets', k) = DictGet(reference_datasets, k)
          /\ DictGet(monitors', k).reference_data
                = DictGet(monitors, k).reference_data ]_vars

NoDuplicateKeys(d) == \A i, j \in 1..Len(d) : d[i].k = d[j].k => i = j

\* C7, amended: the reference dataset under a registered key is changed by
\* no request other than a successful POST /models/register for that same
\* key, which replaces the dataset, the monitor (with an empty history) and
\* the exporter together; the monitor of a key is always built on the
\* dataset stored under that key; and no map holds a key twice.
C7_ChangedOnlyByRegister ==
    /\ [](/\ NoDuplicateKeys(reference_datasets)
          /\ NoDuplicateKeys(monitors)
          /\ \A k \in KeySet(reference_datasets) :
                /\ k \in KeySet(monitors)
                /\ DictGet(monitors, k).reference_data
                      = DictGet(reference_datasets, k))
    /\ [][ \A k \in KeySet(reference_datasets) \cap KeySet(reference_datasets') :
             DictGet(reference_datasets', k) # DictGet(reference_datasets, k)
               => /\ last'.op = "register"
                  /\ last'.status = 200
                  /\ last'.model_key = k
                  /\ DictGet(monitors', k)
                        = NewModelMonitor(DictGet(reference_datasets', k))
                  /\ DictGet(exporters', k).monitoring_runs = 0 ]_vars

\* a model that went through a monitoring run and a drift check after its
\* registration and still holds the dataset it was registered with
C7_Witness ==
    /\ last.op = "drift"
    /\ last.status = 200
    /\ Len(DictGet(monitors, last.model_key).history) = 1
    /\ DictGet(reference_datasets, last.model_key) = "ref_v2"
    /\ DictGet(monitors, last.model_key).reference_data = "ref_v2"

\* C8: POST /drift/check leaves the resolved model's history, health gauge,
\* performance gauge, samples-analyzed counter and monitoring-runs counter
\* unchanged, and changes nothing for any other registered model.
C8_DriftCheckFrame ==
    [][ last'.op = "drift" =>
          /\ reference_datasets' = reference_datasets
          /\ DictKeys(monitors') = DictKeys(monitors)
          /\ DictKeys(exporters') = DictKeys(exporters)
          /\ \A k \in KeySet(monitors) :
                IF k = last'.model_key
                THEN /\ DictGet(monitors', k).history = DictGet(monitors, k).history
                     /\ DictGet(monitors', k).reference_data
                           = DictGet(monitors, k).reference_data
                     /\ DictGet(exporters', k).health_status
                           = DictGet(exporters, k).health_status
                     /\ DictGet(exporters', k).performance_degradation
                           = DictGet(exporters, k).performance_degradation
                     /\ DictGet(exporters', k).samples_analyzed
                           = DictGet(exporters, k).samples_analyzed
                     /\ DictGet(exporters', k).monitoring_runs
                           = DictGet(exporters, k).monitoring_runs
                ELSE /\ DictGet(monitors', k) = DictGet(monitors, k)
                     /\ DictGet(exporters', k) = DictGet(exporters, k) ]_vars

\* a drift check answered 200 for a model that has a monitoring result in
\* its history, moved the drift gauge away from that result, and left a
\* second registered model alone
C8_Witness ==
    /\ last.op = "drift"
    /\ last.status = 200
    /\ Len(monitors) = 2
    /\ LET m == DictGet(monitors, last.model_key)
           e == DictGet(exporters, last.model_key)
       IN  /\ Len(m.history) = 1
           /\ m.history[1].data_drift.dataset_drift
           /\ e.drift_detected = Gauge(0)
           /\ e.health_status = Gauge(2)
           /\ e.monitoring_runs = 1


----------------------------------------------------------------------------
\* C3: in run_all_checks one model's failure never aborts the run for the
\* others: whatever is raised while a model is processed, the later models
\* are still processed, and self.results holds exactly one entry per
\* processed model, in configuration order, the failed ones as "error".
\* (violated: an entry of the list that is no mapping makes the except block
\* itself raise, and an exception of send_alert leaves two entries)
C3_OneEntryPerModel ==
    /\ Len(runner_results) = rIdx
    /\ \A k \in 1..Len(runner_results) : runner_results[k].of = k
    /\ (rPc = "exit1" => rIdx = 0)
    /\ (rPc = "exit0" => rIdx = Len(rModels))

\* C9: the Drift Check Runner always completes its run and writes a summary
\* file: whatever the configuration file holds, an execution that has ended
\* has written the result list.
\* (violated: an empty configuration file, or a list entry that is no mapping)
C9_SummaryAlwaysWritten ==
    rPc \in {"exit0", "exit1"} => summary_file # "not written"

\* C10: a webhook POST is made for a model if and only if its check completed
\* with health_status "critical" and a webhook is configured, at most once.
\* (violated: send_alert raises while it builds the message, before the POST)
Occurrences(seq, x) == Cardinality({ k \in 1..Len(seq) : seq[k] = x })

CompletedCritical(i) ==
    \E k \in 1..Len(runner_results) :
        /\ runner_results[k].of = i
        /\ runner_results[k].status = "completed"
        /\ runner_results[k].health_status = "critical"

C10_AlertIffCritical ==
    \A i \in 1..rIdx :
        /\ Occurrences(webhook_posts, i) <= 1
        /\ Occurrences(webhook_posts, i) = 1 <=> (CompletedCritical(i) /\ slack_webhook)

----------------------------------------------------------------------------
\* C4: run_pipeline enters its steps in the fixed order load, validate,
\* prepare features, split, train, evaluate, save artifacts; a step is entered
\* only after every earlier step returned; once a step has raised no step is
\* entered any more and none is entered twice, pipeline_status "failed" and
\* the error text are on the tracking run, and that same exception leaves
\* run_pipeline; run_pipeline returns only after all seven steps returned.
IsPrefix(s, t) == Len(s) <= Len(t) /\ \A k \in 1..Len(s) : s[k] = t[k]

----------------------------------------------------------------------------
\* C11: each execution of run_pipeline produces exactly one tracking run: it
\* is opened before the first step, no other run is opened while it is active
\* (the train step included), and it is closed when run_pipeline ends.
\* (violated: BaseModel.train asks for a run of its own inside the active one)
C11_ExactlyOneRun ==
    /\ runs_opened <= 1
    /\ active_runs <= 1
    /\ (steps_run # <<>> => runs_opened = 1)
    /\ (pPc \in {"returned", "raised"} => runs_opened = 1 /\ active_runs = 0)


----------------------------------------------------------------------------
(* the specifications of the second part *)

\* --- calls on one InferencePipeline object, in any order ---
InitInference == CoreIdle /\ LibIdle

InfLoadModel ==
    /\ \E found \in {"model", "no_model_entry", "raises"} : LoadModel(found)
    /\ UNCHANGED <<cliOnly, otherThanInference>>

InfLoadFeaturePipeline ==
    /\ \E found \in {"ok", "raises"} : LoadFeaturePipeline(found)
    /\ UNCHANGED <<cliOnly, otherThanInference>>

InfPredict ==
    /\ \E n \in 0..2, d \in 0..1, fail \in {"none"} \cup PredictFailures :
          Predict(n, d, fail)
    /\ UNCHANGED <<cliOnly, otherThanInference>>

InfPredictBatch ==
    /\ \E file \in {"ok", "unsupported", "unreadable"}, calls \in BatchCalls,
          save \in {"ok", "raises"} : PredictBatch(file, calls, save)
    /\ UNCHANGED <<cliOnly, otherThanInference>>

InfHealthCheck ==
    /\ \E d \in 0..1, fail \in {"none"} \cup PredictFailures :
          ObjectHealthCheck(d, fail)
    /\ UNCHANGED <<cliOnly, otherThanInference>>

InfResetStats ==
    /\ ResetStats
    /\ UNCHANGED <<cliOnly, otherThanInference>>

NextInference ==
    \/ InfLoadModel
    \/ InfLoadFeaturePipeline
    \/ InfPredict
    \/ InfPredictBatch
    \/ InfHealthCheck
    \/ InfResetStats

SpecInference == InitInference /\ [][NextInference]_vars

\* --- one execution of the inference command, for every argument list ---
InitCli ==
    /\ IdleButInference
    /\ ObjectFresh
    /\ cli_args \in CliArgs
    /\ cPc = "construct"
    /\ cli_calls = <<>>
    /\ cli_health = "none"
    /\ cli_printed = "none"

CliConstruct ==
    /\ \E model_found \in {"model", "no_model_entry", "raises"},
          pipeline_found \in {"ok", "raises"} :
          Construct(model_found, pipeline_found)
    /\ UNCHANGED otherThanInference

CliHealthCheck ==
    /\ \E d \in 0..1, fail \in {"none"} \cup PredictFailures : HealthGate(d, fail)
    /\ UNCHANGED otherThanInference

CliInfer ==
    /\ \E file \in {"ok", "unsupported", "unreadable"}, calls \in BatchCalls,
          save \in {"ok", "raises"} : Infer(file, calls, save)
    /\ UNCHANGED otherThanInference

NextCli ==
    \/ CliConstruct
    \/ CliHealthCheck
    \/ CliInfer

SpecCli == InitCli /\ [][NextCli]_vars

----------------------------------------------------------------------------
\* C12: every predict call that ends in an exception, whatever its cause,
\* raises error_count by exactly 1 and leaves total_predictions and
\* total_inference_time unchanged; every call that returns leaves error_count
\* unchanged and raises total_predictions by the number of samples.
\* (violated: "No model loaded" is raised before the try block)
C12_FailureCounted ==
    [][inf_last'.op = "predict" =>
         /\ (inf_last'.outcome = "raised" =>
               inference_stats' =
                 [inference_stats EXCEPT !.error_count = @ + 1])
         /\ (inf_last'.outcome = "returned" =>
               /\ inference_stats'.error_count = inference_stats.error_count
               /\ inference_stats'.total_predictions =
                    inference_stats.total_predictions + inf_last'.num_samples)]_vars

----------------------------------------------------------------------------
\* C20: the inference command makes no predict or predict_batch call on the
\* input file unless the health check before it reported "healthy"; an
\* unhealthy report, like any other failure of the command, prints the error
\* and ends the process with exit status 1.
OnInput == {"predict", "predict_batch"}

C20_HealthCheckFirst ==
    /\ (\A k \in 1..Len(cli_calls) :
          cli_calls[k] \in OnInput =>
             /\ cli_health = "healthy"
             /\ \E j \in 1..(k - 1) : cli_calls[j] = "health_check")
    /\ (cli_health = "unhealthy" => cPc = "exit1")
    /\ (cPc # "idle" /\ inf_last.outcome = "raised" => cPc = "exit1")
    /\ (cPc = "exit1" => cli_printed = "Error")
    /\ (cPc = "exit0" => cli_printed = "completed" /\ cli_health = "healthy")

\* the health check failed its test prediction and the command ended there
C20_Witness ==
    /\ cli_health = "unhealthy"
    /\ cPc = "exit1"
    /\ cli_printed = "Error"
    /\ cli_calls = <<"construct", "health_check">>

----------------------------------------------------------------------------
\* --- calls on one FeatureEngineer object, in any order ---
InitFeature == CoreIdle /\ LibIdle

FeCreatePreprocessor ==
    /\ \E strategy_known \in BOOLEAN : create_preprocessor(strategy_known)
    /\ UNCHANGED otherThanFeature

FeFitTransform ==
    /\ \E X \in Frames, fit \in {"ok", "raises"}, names_out \in {"none", "names"} :
          fit_transform(X, fit, names_out)
    /\ UNCHANGED otherThanFeature

FeTransform ==
    /\ \E input_ok \in BOOLEAN : transform(input_ok)
    /\ UNCHANGED otherThanFeature

FeSelectFeatures ==
    /\ \E method_known \in BOOLEAN, fit \in {"ok", "raises"} :
          select_features(method_known, fit)
    /\ UNCHANGED otherThanFeature

FeSavePipeline ==
    /\ \E write_ok \in BOOLEAN : save_pipeline(write_ok)
    /\ UNCHANGED otherThanFeature

FeLoadPipeline ==
    /\ load_pipeline
    /\ UNCHANGED otherThanFeature

NextFeature ==
    \/ FeCreatePreprocessor
    \/ FeFitTransform
    \/ FeTransform
    \/ FeSelectFeatures
    \/ FeSavePipeline
    \/ FeLoadPipeline

SpecFeature == InitFeature /\ [][NextFeature]_vars

\* C13: a transform or select_features call that precedes the first
\* successful fit_transform raises and leaves the FeatureEngineer unchanged.
\* (violated: select_features has no such guard)
C13_BeforeFitIsError ==
    [][(fe_last'.op \in {"transform", "select_features"} /\ ~fe.is_fitted) =>
          (fe_last'.outcome = "raised" /\ fe' = fe)]_vars

----------------------------------------------------------------------------
\* --- calls on one model object, in any order ---
InitModel == CoreIdle /\ LibIdle

PrepareData ==
    /\ \E columns \in Frames, split_ok \in BOOLEAN : prepare_data(columns, split_ok)
    /\ UNCHANGED otherThanModel

Train ==
    /\ \E outcome \in TrainOutcomes : train(outcome)
    /\ UNCHANGED otherThanModel

ModelPredict ==
    /\ \E op \in {"predict", "predict_proba"}, input_ok \in BOOLEAN :
          predict_model(op, input_ok)
    /\ UNCHANGED otherThanModel

SaveModel ==
    /\ \E write_ok \in BOOLEAN : save_model(write_ok)
    /\ UNCHANGED otherThanModel

LoadSavedModel ==
    /\ load_model
    /\ UNCHANGED otherThanModel

NextModel ==
    \/ PrepareData
    \/ Train
    \/ ModelPredict
    \/ SaveModel
    \/ LoadSavedModel

SpecModel == InitModel /\ [][NextModel]_vars

\* C14: predict, predict_proba and save_model raise unless the estimator the
\* model holds has completed a successful fit; the trained flag is true only
\* when the held estimator is fitted.
\* (violated: a train call whose fit raises replaces the estimator and leaves
\* is_trained true from an earlier train)
C14_TrainedMeansFitted ==
    /\ (bm.is_trained => bm.model = "fitted")
    /\ ((bm_last.op \in {"predict", "predict_proba", "save_model"}
          /\ bm_last.outcome = "returned") => bm.model = "fitted")

----------------------------------------------------------------------------
\* --- load_config on every combination of sources ---
InitConfig ==
    /\ IdleButConfig
    /\ cfg_sources \in ConfigSources
    /\ cfg_merged = NoneValue

LoadMergedConfig ==
    /\ cfg_merged = NoneValue
    /\ cfg_merged' = load_config(cfg_sources)
    /\ UNCHANGED cfg_sources
    /\ UNCHANGED otherThanConfig

NextConfig == LoadMergedConfig

SpecConfig == InitConfig /\ [][NextConfig]_vars

\* C15: load_config gives every leaf key the value of the highest-precedence
\* source that defines it (base file < environment file < environment
\* variables < secrets file), merging nested mappings key by key; a variable
\* that is unset never overrides or removes a value a file set.
\* (violated: the unset variables leave empty "mlflow" and "data" mappings
\* behind, which replace a section a file left empty)
FilesOnly(sources) ==
    _deep_merge(_deep_merge(_load_config_file(sources.base),
                            _load_config_file(sources.env)),
                _load_config_file(sources.secrets))

\* the value at a path of at most two keys (null when the path is not there)
At(d, path) ==
    IF d.kind # "dict" \/ path[1] \notin Keys(d) THEN NoneValue
    ELSE IF Len(path) = 1 THEN d.items[path[1]]
    ELSE IF d.items[path[1]].kind # "dict"
            \/ path[2] \notin Keys(d.items[path[1]]) THEN NoneValue
    ELSE d.items[path[1]].items[path[2]]

LeafPaths == {<<"aws_region">>, <<"mlflow", "tracking_uri">>,
              <<"mlflow", "experiment_name">>}

\* the sources by falling precedence, as mappings
Precedence(sources) ==
    << _load_config_file(sources.secrets),
       Dict([k \in {"mlflow", "aws_region"} |->
               IF k = "mlflow"
               THEN Dict([j \in {"tracking_uri"} |->
                            getenv(sources.vars.MLFLOW_TRACKING_URI)])
               ELSE getenv(sources.vars.AWS_REGION)]),
       _load_config_file(sources.env),
       _load_config_file(sources.base) >>

\* the highest source that has something at the path decides: a leaf there
\* is the value; a section that is no mapping hides what lies below
Expected(sources, path) ==
    LET order == Precedence(sources)
        decides(i) ==
            \/ At(order[i], path).kind = "leaf"
            \/ /\ Len(path) = 2
               /\ path[1] \in Keys(order[i])
               /\ order[i].items[path[1]].kind # "dict"
        deciding == {i \in 1..Len(order) : decides(i)}
    IN  IF deciding = {} THEN NoneValue
        ELSE At(order[CHOOSE i \in deciding : \A j \in deciding : i <= j], path)

C15_PrecedencePerLeaf ==
    cfg_merged # NoneValue =>
       /\ \A path \in LeafPaths :
            At(cfg_merged, path) = Expected(cfg_sources, path)
       /\ (cfg_sources.vars = [MLFLOW_TRACKING_URI |-> FALSE, AWS_REGION |-> FALSE]
             => \A k \in Keys(FilesOnly(cfg_sources)) :
                   cfg_merged.items[k] = FilesOnly(cfg_sources).items[k])

----------------------------------------------------------------------------
\* --- validate_config on every configuration ---
InitValidate ==
    /\ IdleButValidate
    /\ vc_config \in Configs
    /\ vc_result = [called |-> FALSE, valid |-> FALSE, logged |-> <<>>]

ValidateConfig ==
    /\ ~vc_result.called
    /\ vc_result' = validate_config(vc_config)
    /\ UNCHANGED vc_config
    /\ UNCHANGED otherThanValidate

NextValidate == ValidateConfig

SpecValidate == InitValidate /\ [][NextValidate]_vars

\* C16: validate_config returns false if and only if at least one of the
\* listed rules is violated, logs exactly one message per violated rule, and
\* returns true for the default configuration.
InOpenUnit(hundredths) == 0 < hundredths /\ hundredths < 100

Violated(config) ==
    {r \in {"model type", "algorithm", "data format", "test_size",
            "validation_size", "numeric_strategy", "categorical_strategy"} :
       \/ r = "model type" /\ config.type \notin {"classification", "regression"}
       \/ r = "algorithm" /\ config.algorithm \notin
             {"random_forest", "xgboost", "linear_regression", "logistic_regression"}
       \/ r = "data format" /\ config.format \notin {"csv", "parquet", "json"}
       \/ r = "test_size" /\ ~InOpenUnit(config.test_size)
       \/ r = "validation_size" /\ ~InOpenUnit(config.validation_size)
       \/ r = "numeric_strategy" /\ config.numeric_strategy \notin
             {"standard", "minmax", "robust"}
       \/ r = "categorical_strategy" /\ config.categorical_strategy \notin
             {"onehot", "ordinal", "label"}}

C16_FalseIffRuleViolated ==
    vc_result.called =>
       /\ (vc_result.valid <=> Violated(vc_config) = {})
       /\ Len(vc_result.logged) = Cardinality(Violated(vc_config))
       /\ {vc_result.logged[i] : i \in 1..Len(vc_result.logged)} = Violated(vc_config)
       /\ (vc_config = DefaultConfig => vc_result.valid)

\* a test split of exactly 0 and an unknown model type: two messages, false
C16_Witness ==
    /\ vc_result.called
    /\ vc_config.test_size = 0
    /\ vc_config.type = "unknown"
    /\ ~vc_result.valid
    /\ vc_result.logged = <<"model type", "test_size">>

----------------------------------------------------------------------------
\* --- the baseline monitor under every sequence of calls ---
InitMonitor == IdleButMonitor /\ MonitorIdle

MonSetBaseline == SetBaseline /\ UNCHANGED otherThanMonitor
MonLogPrediction == LogPrediction /\ UNCHANGED otherThanMonitor
MonResetHistory == ResetHistory /\ UNCHANGED otherThanMonitor

NextMonitor == MonSetBaseline \/ MonLogPrediction \/ MonResetHistory

SpecMonitor == InitMonitor /\ [][NextMonitor]_vars

\* C17: after n log_prediction calls since construction or the last
\* reset_history, prediction_history holds exactly the min(n, 1000) most
\* recent records in call order and never more than 1000; reset_history
\* empties it and leaves the baseline statistics unchanged.
Min(a, b) == IF a <= b THEN a ELSE b

MostRecent(n, k) == [i \in 1..k |-> Record(n - k + i)]

LastThousandKept ==
    /\ Len(prediction_history) <= 1000
    /\ prediction_history = MostRecent(mon_logged, Min(mon_logged, 1000))

ResetKeepsBaseline ==
    [][ResetHistory => /\ prediction_history' = <<>>
                       /\ baseline_stats' = baseline_stats]_vars

C17_LastThousandKept == []LastThousandKept /\ ResetKeepsBaseline

\* two records beyond the cap have been logged and the two oldest dropped
C17_Witness ==
    /\ mon_logged = 1002
    /\ Len(prediction_history) = 1000
    /\ prediction_history[1] = Record(3)
    /\ baseline_stats \in Baselines

----------------------------------------------------------------------------
\* --- check_deployment_health on every deployment ---
InitDeploymentHealth ==
    /\ IdleButGitops
    /\ gh_deployment \in Deployments \cup {Absent}
    /\ gh_result = NotChecked
    /\ check_count = 2
    /\ stPc = "idle"
    /\ observed = <<>>
    /\ health_checks = <<>>

GhCheckDeploymentHealth == CheckDeploymentHealth /\ UNCHANGED otherThanGitops

NextDeploymentHealth == GhCheckDeploymentHealth

SpecDeploymentHealth == InitDeploymentHealth /\ [][NextDeploymentHealth]_vars

\* C18: a deployment is reported unhealthy if and only if it is absent, its
\* status is unreported, its ready or its available replicas are fewer than
\* the desired replicas, or a condition of type Available or Progressing has
\* a status other than "True"; desired is the declared count, 1 only when
\* the count is unset, and unreported ready/available counts are 0.
IsUnset(x) == x = <<>>

Desired(deployment) ==
    IF IsUnset(deployment.replicas) THEN 1 ELSE deployment.replicas[1]

Reported(x) == IF IsUnset(x) THEN 0 ELSE x[1]

ClaimedUnhealthy(deployment) ==
    \/ ~deployment.present
    \/ ~deployment.has_status
    \/ Reported(deployment.ready_replicas) < Desired(deployment)
    \/ Reported(deployment.available_replicas) < Desired(deployment)
    \/ \E i \in 1..Len(deployment.conditions) :
          /\ deployment.conditions[i].type \in {"Available", "Progressing"}
          /\ deployment.conditions[i].status # "True"

C18_UnhealthyIff ==
    gh_result # NotChecked => (~gh_result.healthy <=> ClaimedUnhealthy(gh_deployment))

----------------------------------------------------------------------------
\* --- the stability test for one controller ---
InitStability ==
    /\ IdleButGitops
    /\ gh_deployment = Absent
    /\ gh_result = NotChecked
    /\ check_count \in 2..5
    /\ stPc = "namespace"
    /\ observed = <<>>
    /\ health_checks = <<>>

StCheckNamespace ==
    /\ \E exists \in BOOLEAN : CheckNamespace(exists)
    /\ UNCHANGED otherThanGitops

StObserve ==
    /\ \E deployment \in Observations : Observe(deployment)
    /\ UNCHANGED otherThanGitops

StAssertStable == AssertStable /\ UNCHANGED otherThanGitops

NextStability == StCheckNamespace \/ StObserve \/ StAssertStable

SpecStability == InitStability /\ [][NextStability]_vars

\* C19: for every check_count in 2..5 the stability test passes for a
\* controller exactly when all check_count observations of it give the same
\* verdict under the health predicate, and reports flapping whenever two
\* observations differ.
Verdict(deployment) == check_deployment_health(deployment).healthy

AllAgree ==
    \A i, j \in 1..Len(observed) : Verdict(observed[i]) = Verdict(observed[j])

----------------------------------------------------------------------------
\* --- requests of the monitoring service in flight together ---
InitLoop == IdleButLoop /\ LoopIdle

loopFrame == <<healthVars, runnerVars, pipelineVars, libsButLoop>>

LoopBegin(r) == Begin(r) /\ UNCHANGED loopFrame

LoopCall == \E r \in Inflight : LoopBegin(r)

LoopRegisterLoad ==
    /\ \E r \in Inflight, readable \in BOOLEAN : RegisterLoad(r, readable)
    /\ UNCHANGED loopFrame

LoopRegisterStoreMonitor ==
    (\E r \in Inflight : RegisterStoreMonitor(r)) /\ UNCHANGED loopFrame

LoopRegisterStoreExporter ==
    (\E r \in Inflight : RegisterStoreExporter(r)) /\ UNCHANGED loopFrame

LoopRegisterStoreReference ==
    (\E r \in Inflight : RegisterStoreReference(r)) /\ UNCHANGED loopFrame

LoopFindModelKey == (\E r \in Inflight : FindModelKey(r)) /\ UNCHANGED loopFrame

LoopUnregisterDelMonitor ==
    (\E r \in Inflight : UnregisterDelMonitor(r)) /\ UNCHANGED loopFrame

LoopUnregisterDelExporter ==
    (\E r \in Inflight : UnregisterDelExporter(r)) /\ UNCHANGED loopFrame

LoopUnregisterDelReference ==
    (\E r \in Inflight : UnregisterDelReference(r)) /\ UNCHANGED loopFrame

LoopDriftGetMonitor == (\E r \in Inflight : DriftGetMonitor(r)) /\ UNCHANGED loopFrame

LoopDriftGetExporter == (\E r \in Inflight : DriftGetExporter(r)) /\ UNCHANGED loopFrame

LoopDriftDetect ==
    /\ \E r \in Inflight :
          \/ DriftDetect(r, "engine", NoDrift)
          \/ \E drift \in DriftOutcomes : DriftDetect(r, "none", drift)
    /\ UNCHANGED loopFrame

NextLoop ==
    \/ LoopCall
    \/ LoopRegisterLoad
    \/ LoopRegisterStoreMonitor
    \/ LoopRegisterStoreExporter
    \/ LoopRegisterStoreReference
    \/ LoopFindModelKey
    \/ LoopUnregisterDelMonitor
    \/ LoopUnregisterDelExporter
    \/ LoopUnregisterDelReference
    \/ LoopDriftGetMonitor
    \/ LoopDriftGetExporter
    \/ LoopDriftDetect

SpecLoop == InitLoop /\ [][NextLoop]_vars

\* the key is in some of the three maps and not in the others
Partial ==
    \/ KeySet(monitors) # KeySet(exporters)
    \/ KeySet(exporters) # KeySet(reference_datasets)

InHandler(r) == req[r].pc \notin {"pending", "done"}

----------------------------------------------------------------------------
\* --- the requests on one model, and what its clients have seen ---
InitHistory == IdleButHistory /\ HistoryIdle

historyFrame == <<healthVars, runnerVars, pipelineVars, libsButHistory>>

HistRegister ==
    /\ \E path \in ReferencePaths :
          register_model(HistoryModel[1], HistoryModel[2], path)
    /\ runs_returned' = IF last'.status = 200 THEN <<>> ELSE runs_returned
    /\ UNCHANGED <<history_response, historyFrame>>

HistRunMonitoring ==
    /\ \E n \in HistoryNames, source \in CurrentSources,
          fail \in {"none", "engine", "export"}, out \in EngineOutcomes :
          /\ run_monitoring_upto(MaxHistory, n, source, fail, out[1], out[2])
          /\ runs_returned' =
                IF MonitorReturned(n, source, fail)
                THEN Append(runs_returned, MonitoringResults(CurrentRows, out[1], out[2]))
                ELSE runs_returned
    /\ UNCHANGED <<history_response, historyFrame>>

HistCheckDrift ==
    /\ \E n \in HistoryNames :
          \/ check_drift(n, "engine", NoDrift)
          \/ \E drift \in DriftOutcomes : check_drift(n, "none", drift)
    /\ UNCHANGED <<historyVars, historyFrame>>

HistGetHistory ==
    /\ \E n \in HistoryNames :
          /\ get_monitoring_history(n)
          /\ history_response' = HistoryBody(n)
    /\ UNCHANGED <<runs_returned, historyFrame>>

HistUnregister ==
    /\ \E n \in HistoryNames : unregister_model(n)
    /\ runs_returned' = IF last'.status = 200 THEN <<>> ELSE runs_returned
    /\ UNCHANGED <<history_response, historyFrame>>

NextHistory ==
    \/ HistRegister
    \/ HistRunMonitoring
    \/ HistCheckDrift
    \/ HistGetHistory
    \/ HistUnregister

SpecHistory == InitHistory /\ [][NextHistory]_vars

\* C22: every ModelMonitor.run_monitoring call that returns appends exactly
\* one entry, the result it returns, to the end of the monitor's history, and
\* nothing truncates, reorders or removes entries: after k such runs since
\* registration the history, and what GET /models/{name}/history returns, is
\* exactly those k results in run order.
C22_HistoryIsRunLog ==
    /\ \A i \in 1..Len(monitors) : monitors[i].v.history = runs_returned
    /\ (last.op = "history" /\ last.status = 200) => history_response = runs_returned
    /\ [][ (Len(runs_returned') > Len(runs_returned))
             => /\ Len(runs_returned') = Len(runs_returned) + 1
                /\ \A i \in 1..Len(monitors') :
                      monitors'[i].v.history
                         = Append(monitors[i].v.history,
                                  runs_returned'[Len(runs_returned')]) ]_vars

\* a critical run, then a healthy one, then a drift check, then the history
C22_Witness ==
    /\ last.op = "history"
    /\ last.status = 200
    /\ Len(history_response) = 2
    /\ history_response[1].health_status = "critical"
    /\ history_response[2].health_status = "healthy"
    /\ exporters[1].v.drift_share = Gauge(60)

----------------------------------------------------------------------------
\* --- predict_batch on every file length and batch size ---
InitBatch ==
    /\ IdleButBatch
    /\ pb_input \in BatchInputs
    /\ pb_result = NotCalled

PredictBatchRows ==
    /\ ~pb_result.called
    /\ pb_result' = predict_batch_rows(pb_input.n, pb_input.batch_size,
                                       pb_input.model, pb_input.fail_at)
    /\ UNCHANGED pb_input
    /\ UNCHANGED otherThanBatch

NextBatch == PredictBatchRows

SpecBatch == InitBatch /\ [][NextBatch]_vars

\* C23: on an input of n rows with batch size b >= 1, predict_batch passes
\* to predict consecutive chunks of at most b rows that together cover every
\* row exactly once in file order (ceil(n/b) calls), and returns
\* num_samples = n with the predictions concatenated in row order and the
\* summed inference time, for every n >= 0 (a model being loaded and no
\* predict call failing).
RECURSIVE Concat(_)
Concat(seqs) == IF seqs = <<>> THEN <<>> ELSE Head(seqs) \o Concat(Tail(seqs))

RECURSIVE TimeOf(_)
TimeOf(chunks) ==
    IF chunks = <<>> THEN 0 ELSE InferenceTime(Head(chunks)) + TimeOf(Tail(chunks))

CeilDiv(n, b) == (n + b - 1) \div b

AllSucceed == pb_input.model = "fitted" /\ pb_input.fail_at = 0

C23_ChunksCoverRows ==
    (pb_result.called /\ AllSucceed) =>
       /\ pb_result.outcome = "returned"
       /\ \A c \in 1..Len(pb_result.chunks) :
             Len(pb_result.chunks[c]) \in 1..pb_input.batch_size
       /\ Concat(pb_result.chunks) = [i \in 1..pb_input.n |-> i]
       /\ Len(pb_result.chunks) = CeilDiv(pb_input.n, pb_input.batch_size)
       /\ pb_result.num_samples = pb_input.n
       /\ pb_result.all_predictions = [i \in 1..pb_input.n |-> [row |-> i]]
       /\ pb_result.total_time = TimeOf(pb_result.chunks)

----------------------------------------------------------------------------
\* C24: a configured model for which no current data is found (no path and
\* no query, a path of an unrecognised kind, the unimplemented query source,
\* or an empty table) is recorded with status 'skipped' and no request is
\* sent to the monitoring service for it; a model is recorded with status
\* 'completed' only after the service answered its request with status 200.
NoDataFound(model_config, world) ==
    /\ model_config.form = "mapping"
    /\ model_config.has_name
    /\ \/ model_config.data \in {"none", "other_path", "query"}
       \/ model_config.data = "file" /\ world.read = "empty"

Answered200(world) == world.answer \in {"healthy", "warning", "critical"}

C24_SkippedWithoutRequest ==
    [][ \A world \in Worlds :
          CheckNextModel(world) =>
            LET i == rIdx + 1
                added == { k \in 1..Len(runner_results') : k > Len(runner_results) }
            IN  /\ NoDataFound(rModels[i], world) =>
                      /\ runner_results' =
                            Append(runner_results,
                                   [of |-> i, status |-> "skipped",
                                    health_status |-> "none"])
                      /\ service_calls' = service_calls
                /\ (\E k \in added : runner_results'[k].status = "completed") =>
                      /\ Answered200(world)
                      /\ service_calls' = Append(service_calls, i)
                /\ (\E k \in added : runner_results'[k].status = "skipped") =>
                      service_calls' = service_calls ]_vars

\* the first model had an empty table and was skipped without a request, the
\* second was completed by the one request sent
C24_Witness ==
    /\ Len(runner_results) = 2
    /\ rModels[1].data = "file"
    /\ runner_results[1].status = "skipped"
    /\ runner_results[2].status = "completed"
    /\ service_calls = <<2>>

----------------------------------------------------------------------------
\* C25: after every completed request of the monitoring service, in any
\* sequence of register, unregister, monitoring/run and drift/check requests
\* including failing ones, the three state maps monitors, exporters and
\* reference_datasets have exactly the same key set.
C25_SameKeySets ==
    /\ KeySet(monitors) = KeySet(exporters)
    /\ KeySet(exporters) = KeySet(reference_datasets)
    /\ Len(monitors) = Len(exporters)
    /\ Len(exporters) = Len(reference_datasets)

\* two models are registered and the last request, a monitoring run on a
\* registered model, failed after the monitor had run
C25_Witness ==
    /\ Len(monitors) = 2
    /\ last.op = "run"
    /\ last.status = 500
    /\ last.model_key \in KeySet(monitors)
    /\ Len(DictGet(monitors, last.model_key).history) = 1

----------------------------------------------------------------------------
\* C26: a POST /monitoring/run that is answered with an error status (400,
\* 404 or 500) leaves the resolved model's monitoring history and its
\* exported metrics exactly as they were before the request; a failure while
\* updating metrics or scheduling the report leaves no new history entry.
C26_FailedRunLeavesNoTrace ==
    [][ (last'.op = "run" /\ last'.status \in {400, 404, 500}) =>
          /\ KeySet(monitors') = KeySet(monitors)
          /\ \A k \in KeySet(monitors) :
                /\ DictGet(monitors', k).history = DictGet(monitors, k).history
                /\ DictGet(exporters', k) = DictGet(exporters, k) ]_vars

----------------------------------------------------------------------------
\* C27: in every state of a FeatureEngineer reachable by create_preprocessor,
\* fit_transform, transform, select_features, save_pipeline and load_pipeline
\* calls, is_fitted is true only if the preprocessor the instance holds is
\* the fitted one, so a transform that passes its guard runs a fitted
\* preprocessor, and transform never changes the fitted state.
C27_FittedFlagMeansFitted ==
    /\ fe.is_fitted => fe.preprocessor = "fitted"
    /\ (fe_last.op = "transform" /\ fe.is_fitted) => fe.preprocessor = "fitted"

----------------------------------------------------------------------------
\* C28: health_check reports status "healthy" only if a model is loaded and
\* its test prediction succeeded; hence in the state a "healthy" health_check
\* leaves, no predict call fails with "No model loaded".
C28_HealthyMeansModelLoaded ==
    (inf_last.op = "health_check" /\ inf_last.outcome = "healthy") =>
       /\ inf_model # "none"
       /\ \A n \in 0..2, d \in 0..1, fail \in {"none"} \cup PredictFailures :
             predict(inf_model, inference_stats, n, d, fail).error
                # "No model loaded"

----------------------------------------------------------------------------
\* C29: the verdict of _determine_health is monotone under the order
\* healthy < warning < critical: with the other inputs held fixed, raising
\* drift_share, switching dataset_drift from false to true, or raising
\* performance_degradation never yields a less severe verdict.
Severity(verdict) ==
    CASE verdict = "healthy" -> 0
      [] verdict = "warning" -> 1
      [] verdict = "critical" -> 2

\* the results that differ from r in one input only, that input raised
RaisedInputs(r) ==
    LET drift == r.data_drift
        perf == r.model_performance
    IN  { [r EXCEPT !.data_drift.drift_share = s] :
            s \in { x \in ShareValues :
                      drift.present /\ drift.has_share /\ x > drift.drift_share } }
        \cup
        (IF drift.present /\ drift.has_flag /\ ~drift.dataset_drift
         THEN { [r EXCEPT !.data_drift.dataset_drift = TRUE] }
         ELSE {})
        \cup
        { [r EXCEPT !.model_performance.performance_degradation = d] :
            d \in { x \in DegradationValues :
                      perf.present /\ perf.has_degradation
                         /\ x > perf.performance_degradation } }

C29_VerdictMonotone ==
    hVerdict # "none" =>
       \A raised \in RaisedInputs(hResults) :
          Severity(_determine_health(raised)) >= Severity(hVerdict)

----------------------------------------------------------------------------
\* C30: in run_pipeline a validation result with success = false never
\* stops the run: the feature-engineering, split, train, evaluate and
\* persist steps are executed in the same order as after a successful
\* validation, whatever the value of fail_on_validation_error; only an
\* exception raised by a step aborts the run.
StepsBefore(pc) ==
    IF pc = "returned" THEN Steps
    ELSE SubSeq(Steps, 1, (CHOOSE k \in 1..Len(Steps) : Steps[k] = pc) - 1)

\* the run went past a failed validation: it stands before a later step with
\* every earlier step executed, or has returned after all seven, or was
\* aborted by the exception of a later step
PastFailedValidation ==
    validation_success = "false" =>
       /\ pPc \notin {"idle", "load_data", "validate_data"}
       /\ pPc # "raised" => steps_run = StepsBefore(pPc)
       /\ pPc = "raised" =>
             /\ Len(steps_run) > 2
             /\ steps_run = SubSeq(Steps, 1, Len(steps_run))
             /\ propagated # "none"

\* the validation step itself goes on to feature engineering unless it
\* raised, in which case no result was stored
ValidationStepGoesOn ==
    [][pPc = "validate_data" /\ pPc' # "validate_data" =>
          \/ pPc' = "prepare_features" /\ validation_success' \in {"true", "false"}
          \/ /\ pPc' = "raised"
             /\ propagated' \in Errors
             /\ validation_success' = "none"]_vars

C30_FailedValidationGoesOn == []PastFailedValidation /\ ValidationStepGoesOn

\* a run with fail_on_validation_error set whose validation failed and which
\* returned after all seven steps
C30_Witness ==
    /\ pipeline_config.validation_enabled
    /\ pipeline_config.fail_on_validation_error
    /\ validation_success = "false"
    /\ pPc = "returned"
    /\ steps_run = Steps

====
